---- MODULE Spec2Model ----
(***************************************************************************)
(* The dispatch engine of core/email_sender.py: EmailSender's three entry  *)
(* points send_single_email, send_bulk_emails (Throttled, and Fast when    *)
(* the delay window is [0,0]) and send_bulk_emails_concurrent (Parallel),  *)
(* run against a transport whose every operation may succeed or raise.     *)
(***************************************************************************)
EXTENDS Integers, Sequences, FiniteSets, TLC

\* ------------------------------------------------------------------ bounds
\* Longest recipient list of a sequential job (send_bulk_emails).
MaxRecipients == 3
\* Longest recipient list of a concurrent job (send_bulk_emails_concurrent).
MaxParallel == 2
\* max_workers is drawn from 1..MaxPool.
MaxPool == 2
\* The throttled delay window is [MinDelay, MinDelay + 1] seconds.
MinDelay == 1

\* The longest list given to deduplicate_emails.
MaxTokens == 3

\* The most words in a text given to parse_and_validate.
MaxWords == 3

\* The longest result list given to get_summary.
MaxResults == 3

\* Longest recipient list of the calls made one after another on one sender.
MaxAgain == 1

\* ------------------------------------------------------------ the program
VARIABLES
    call,              \* the entry point that was called
    recipient_emails,  \* its recipient list
    progress_callback, \* TRUE when a callback was passed, FALSE for None
    min_delay,         \* send_bulk_emails' delay window
    max_delay,
    max_workers,       \* send_bulk_emails_concurrent's pool width
    fake,              \* the transport: the outcomes each operation may have
    pc,                \* the calling thread's position
    i,                 \* send_bulk_emails' loop index (enumerate from 1)
    server,            \* the state of each session: 0 shared, k of recipient k
    fut,               \* each submitted unit of work: its position and result
    results,           \* the result list being built
    completed,         \* send_bulk_emails_concurrent's counter
    progress,          \* the invocations of the progress callback, in order
    slept,             \* the delays time.sleep was called with, in order
    log,               \* what each session's thread asked of the transport
    raised,            \* the exception that left the call, "none" otherwise
    callNo,            \* 1 for the first call on this sender, 2 for the next
    prev,              \* what the first call returned (once callNo = 2)
    lock,              \* the thread holding send_bulk_emails_concurrent's lock
    invoker,           \* the thread that made each callback invocation
    early,             \* the units found finished when as_completed began
    finished_order,    \* the finished units in the order they finished
                       \* (early, finished_order: those not yet yielded)
    summary,           \* what get_summary returned
    callback_error,    \* what the progress callback raised, "none" otherwise
    parse_pc,          \* the position of the call into EmailParser
    text,              \* parse_and_validate's argument, a list of characters
    validator,         \* the addresses email_validator finds well-formed
    tokens,            \* deduplicate_emails' argument
    potential_emails,  \* parse_and_validate's locals
    unique_emails,
    duplicates_count,
    valid_emails,
    invalid_emails,
    returned,          \* what the call into EmailParser returned
    again              \* deduplicate_emails applied to its own output

\* The state of a call into EmailParser.
parserVars == <<parse_pc, text, validator, tokens, potential_emails,
                unique_emails, duplicates_count, valid_emails,
                invalid_emails, returned, again>>

\* The state of a call into EmailSender.
\* The state of the collection of finished units and of the callback.
collectVars == <<lock, invoker, early, finished_order, callback_error>>

senderVars == <<call, recipient_emails, progress_callback, min_delay,
                max_delay, max_workers, fake, pc, i, server, fut, results,
                completed, progress, slept, log, raised, callNo, prev,
                collectVars, summary>>

vars == <<senderVars, parserVars>>

\* The thread that called the entry point, and the pool thread that runs
\* recipient k's unit of work.
MainThread == <<"main", 0>>

ThreadOf(k) == <<"worker", k>>

\* The addresses of a job: distinct, as parse_and_validate delivers them.
Address(k) == <<"rcpt", k>>

Recipients(n) == [k \in 1..n |-> Address(k)]

\* smtplib's exception classes as the handlers tell them apart; "Exception"
\* stands for every exception that is no SMTPException (OSError, ValueError).
Exceptions ==
    {"SMTPAuthenticationError", "SMTPServerDisconnected", "SMTPException",
     "Exception"}

Outcomes == {"ok"} \cup Exceptions

\* isinstance(e, cls): SMTPAuthenticationError and SMTPServerDisconnected are
\* SMTPExceptions, and every exception is an Exception.
IsInstance(e, cls) ==
    \/ cls = "Exception"
    \/ cls = e
    \/ /\ cls = "SMTPException"
       /\ e \in {"SMTPAuthenticationError", "SMTPServerDisconnected"}

\* The first except clause of a try statement that matches e, 0 when none
\* does and e propagates.
RECURSIVE CatchFrom(_, _, _)
CatchFrom(clauses, e, n) ==
    IF n > Len(clauses) THEN 0
    ELSE IF IsInstance(e, clauses[n]) THEN n
    ELSE CatchFrom(clauses, e, n + 1)

Catch(clauses, e) == CatchFrom(clauses, e, 1)

None == <<>>

EmailSendResult(email, success, error) ==
    [email |-> email, success |-> success, error |-> error]

NoResult == EmailSendResult(<<>>, FALSE, None)

\* The except clauses of send_single_email and _send_single_threaded.
SingleClauses == <<"SMTPAuthenticationError", "SMTPException", "Exception">>

\* A slip: the failure built without its reason.
SingleHandlerNoReason(email, e) == [email |-> email, success |-> FALSE,
                                    error |-> <<>>]

SingleHandler(email, e) ==
    LET c == Catch(SingleClauses, e) IN
    IF c = 1 THEN
        EmailSendResult(email, FALSE,
                        <<"Authentication failed - check credentials">>)
    ELSE IF c = 2 THEN EmailSendResult(email, FALSE, <<"SMTP error: ", e>>)
    ELSE EmailSendResult(email, FALSE, <<"Unexpected error: ", e>>)

\* A slip: the inner try statement without its last clause.
InnerClausesSMTPOnly == <<"SMTPException">>

\* A slip: the inner try statement handles a lost connection only.
InnerClausesDisconnectedOnly == <<"SMTPServerDisconnected">>

\* The except clauses around one recipient's build and send in
\* send_bulk_emails.
InnerClauses == <<"SMTPException", "Exception">>

InnerHandler(email, e) ==
    LET c == Catch(InnerClauses, e) IN
    IF c = 1 THEN EmailSendResult(email, FALSE, <<"SMTP error: ", e>>)
    ELSE EmailSendResult(email, FALSE, <<"Error: ", e>>)

\* A slip: the outer try statement without its last clause.
OuterClausesAuthOnly == <<"SMTPAuthenticationError">>

\* The except clauses around send_bulk_emails' whole session.
OuterClauses == <<"SMTPAuthenticationError", "Exception">>

\* A slip: the failures appended from the end of the list.
AllFailedReversed(emails) ==
    [k \in 1..Len(emails) |->
        EmailSendResult(emails[Len(emails) + 1 - k], FALSE,
                        <<"Authentication failed - check credentials">>)]

AllFailed(emails) ==
    [k \in 1..Len(emails) |->
        EmailSendResult(emails[k], FALSE,
                        <<"Authentication failed - check credentials">>)]

\* A slip: the slice of the remaining recipients taken one too far.
RemainingFailedOffByOne(emails, done, e) ==
    [k \in 1..(Len(emails) - done - 1) |->
        EmailSendResult(emails[done + 1 + k], FALSE,
                        <<"Connection error: ", e>>)]

\* A slip: the failures appended for every recipient, not for the remaining.
RemainingFailedFromStart(emails, done, e) ==
    [k \in 1..Len(emails) |->
        EmailSendResult(emails[k], FALSE, <<"Connection error: ", e>>)]

RemainingFailed(emails, done, e) ==
    [k \in 1..(Len(emails) - done) |->
        EmailSendResult(emails[done + k], FALSE, <<"Connection error: ", e>>)]

\* A slip: no clause of its own for the authentication error.
OuterHandlerNoAuthClause(res, emails, e) ==
    res \o [k \in 1..(Len(emails) - Len(res)) |->
              EmailSendResult(emails[Len(res) + k], FALSE,
                              <<"Connection error: ", e>>)]

\* A slip: the handlers build the list anew.
OuterHandlerStartsOver(res, emails, e) ==
    IF IsInstance(e, "SMTPAuthenticationError")
    THEN [k \in 1..Len(emails) |->
            EmailSendResult(emails[k], FALSE,
                            <<"Authentication failed - check credentials">>)]
    ELSE [k \in 1..Len(emails) |->
            EmailSendResult(emails[k], FALSE, <<"Connection error: ", e>>)]

OuterHandler(res, emails, e) ==
    LET c == Catch(OuterClauses, e) IN
    IF c = 1 THEN res \o AllFailed(emails)
    ELSE IF c = 2 THEN res \o RemainingFailed(emails, Len(res), e)
    ELSE res

total == Len(recipient_emails)

Sessions == 0..total

Logged(s, op, k, o) == [log EXCEPT ![s] = Append(@, <<op, k, o>>)]

\* The outcomes the transport may give operation op of session or recipient k.
Transport(op, k) == fake[<<op, k>>]

Ops == {"build", "connect", "starttls", "login", "send"}

\* What each operation can raise: building a message touches no transport
\* and fails with a plain exception; opening the connection and STARTTLS fail
\* with a protocol error or a plain (socket, TLS) exception; only login and a
\* send can report an authentication failure, and a send a lost connection.
Raises(op) ==
    CASE op = "build" -> {"Exception"}
      [] op \in {"connect", "starttls"} -> {"SMTPException", "Exception"}
      [] op = "login" ->
            {"SMTPAuthenticationError", "SMTPException", "Exception"}
      [] OTHER -> Exceptions

\* A transport that may answer every operation of every session in every way.
AnyTransport(n) == [x \in Ops \X (0..n) |-> {"ok"} \cup Raises(x[1])]

DelayWindows == {<<0, 0>>, <<MinDelay, MinDelay + 1>>}

\* The state at the entry of a call, after its arguments were bound: call c
\* on the first n addresses, with callback cb (or None), delay window w, pool
\* width mw, over transport tr.
Entry(c, n, cb, w, mw, tr) ==
    [call |-> c,
     recipient_emails |-> Recipients(n),
     progress_callback |-> cb,
     min_delay |-> w[1],
     max_delay |-> w[2],
     max_workers |-> mw,
     fake |-> tr,
     pc |-> CASE c = "send_bulk_emails" -> "connect"
              [] c = "send_single_email" -> "single"
              [] c = "none" -> "idle"
              [] c = "get_summary" -> "summary"
              [] OTHER -> IF n = 0 THEN "iterate" ELSE "submit",
     i |-> 0,
     server |-> [s \in 0..n |-> "unopened"],
     fut |-> [k \in 1..n |->
                [state |-> IF c = "send_single_email" THEN "build"
                           ELSE "pending",
                 result |-> NoResult,
                 exception |-> "none"]],
     results |-> <<>>,
     completed |-> 0,
     progress |-> <<>>,
     slept |-> <<>>,
     log |-> [s \in 0..n |-> <<>>],
     raised |-> "none",
     lock |-> None,
     invoker |-> <<>>,
     early |-> {},
     finished_order |-> <<>>,
     summary |-> <<>>,
     callback_error |-> "none"]

Enter(e) ==
    /\ call = e.call
    /\ recipient_emails = e.recipient_emails
    /\ progress_callback = e.progress_callback
    /\ min_delay = e.min_delay
    /\ max_delay = e.max_delay
    /\ max_workers = e.max_workers
    /\ fake = e.fake
    /\ pc = e.pc
    /\ i = e.i
    /\ server = e.server
    /\ fut = e.fut
    /\ results = e.results
    /\ completed = e.completed
    /\ progress = e.progress
    /\ slept = e.slept
    /\ log = e.log
    /\ raised = e.raised
    /\ lock = e.lock
    /\ invoker = e.invoker
    /\ early = e.early
    /\ finished_order = e.finished_order
    /\ summary = e.summary
    /\ callback_error = e.callback_error

\* No call into EmailParser is under way.
ParserIdle ==
    /\ parse_pc = "idle"
    /\ text = <<>>
    /\ validator = {}
    /\ tokens = <<>>
    /\ potential_emails = <<>>
    /\ unique_emails = <<>>
    /\ duplicates_count = 0
    /\ valid_emails = <<>>
    /\ invalid_emails = <<>>
    /\ returned = <<>>
    /\ again = <<>>

Init ==
    /\ callNo = 1
    /\ prev = <<>>
    /\ ParserIdle
    /\ \/ \E n \in 0..MaxRecipients, cb \in BOOLEAN, w \in DelayWindows :
            Enter(Entry("send_bulk_emails", n, cb, w, 1, AnyTransport(n)))
       \/ \E n \in 0..MaxParallel, cb \in BOOLEAN, mw \in 1..MaxPool :
            Enter(Entry("send_bulk_emails_concurrent", n, cb, <<0, 0>>, mw,
                  AnyTransport(n)))
       \/ Enter(Entry("send_single_email", 1, FALSE, <<0, 0>>, 1,
                      AnyTransport(1)))

\* ------------------------------------------- send_bulk_emails (sequential)
\* A slip: the session opened without a with statement, never closed when an
\* exception leaves the block.
SeqAbortLeavesOpen(e) ==
    /\ server' = server
    /\ results' = OuterHandler(results, recipient_emails, e)
    /\ raised' = IF Catch(OuterClauses, e) = 0 THEN e ELSE "none"
    /\ pc' = "done"

\* Exception e leaves the with block: the session, if one was opened, is
\* closed by SMTP.__exit__ and the outer except clauses handle e.
SeqAbort(e) ==
    /\ server' = [server EXCEPT ![0] = IF @ = "unopened" THEN @ ELSE "closed"]
    /\ results' = OuterHandler(results, recipient_emails, e)
    /\ raised' = IF Catch(OuterClauses, e) = 0 THEN e ELSE "none"
    /\ pc' = "done"

\* The position after the session is ready: the loop's first recipient, or
\* the end of the with block when there is none.
LoopEntry == IF total = 0 THEN "exit" ELSE "build"

\* smtplib.SMTP(host, port): the constructor connects.
SeqConnect ==
    /\ pc = "connect"
    /\ \E o \in Transport("connect", 0) :
        /\ log' = Logged(0, "connect", 0, o)
        /\ IF o = "ok"
           THEN /\ server' = [server EXCEPT ![0] = "connected"]
                /\ pc' = "starttls"
                /\ UNCHANGED <<results, raised>>
           ELSE SeqAbort(o)
    /\ UNCHANGED <<call, recipient_emails, progress_callback, min_delay,
                   max_delay, max_workers, fake, i, fut, completed, progress,
                   slept, callNo, prev, summary,
                   parserVars>>
    /\ UNCHANGED collectVars

\* A slip: the outcome of STARTTLS not looked at, the session goes on in the
\* clear.
SeqStartTLSIgnoresFailure ==
    /\ pc = "starttls"
    /\ \E o \in Transport("starttls", 0) :
        /\ log' = Logged(0, "starttls", 0, o)
        /\ server' = [server EXCEPT ![0] = "tls"]
        /\ pc' = "login"
        /\ UNCHANGED <<results, raised>>
    /\ UNCHANGED <<call, recipient_emails, progress_callback, min_delay,
                   max_delay, max_workers, fake, i, fut, completed, progress,
                   slept, callNo, prev, summary,
                   parserVars>>
    /\ UNCHANGED collectVars

SeqStartTLS ==
    /\ pc = "starttls"
    /\ \E o \in Transport("starttls", 0) :
        /\ log' = Logged(0, "starttls", 0, o)
        /\ IF o = "ok"
           THEN /\ server' = [server EXCEPT ![0] = "tls"]
                /\ pc' = "login"
                /\ UNCHANGED <<results, raised>>
           ELSE SeqAbort(o)
    /\ UNCHANGED <<call, recipient_emails, progress_callback, min_delay,
                   max_delay, max_workers, fake, i, fut, completed, progress,
                   slept, callNo, prev, summary,
                   parserVars>>
    /\ UNCHANGED collectVars

SeqLogin ==
    /\ pc = "login"
    /\ \E o \in Transport("login", 0) :
        /\ log' = Logged(0, "login", 0, o)
        /\ IF o = "ok"
           THEN /\ server' = [server EXCEPT ![0] = "auth"]
                /\ pc' = LoopEntry
                /\ i' = IF total = 0 THEN i ELSE 1
                /\ UNCHANGED <<results, raised>>
           ELSE SeqAbort(o) /\ UNCHANGED i
    /\ UNCHANGED <<call, recipient_emails, progress_callback, min_delay,
                   max_delay, max_workers, fake, fut, completed, progress,
                   slept, callNo, prev, summary,
                   parserVars>>
    /\ UNCHANGED collectVars

\* A slip: every failure of a recipient's message ends the batch.
SeqRecipientFailedAborts(e) == SeqAbort(e)

\* A slip: a new connection opened for the recipients after a failed one.
SeqRecipientFailedReconnects(e) ==
    /\ results' = Append(results, InnerHandler(recipient_emails[i], e))
    /\ pc' = "callback"
    /\ server' = [server EXCEPT ![i] = "connected"]
    /\ UNCHANGED raised

\* A slip: a send that failed is tried once more.
SeqRecipientFailedRetries(e) ==
    IF pc = "send"
       /\ \A j \in 1..Len(log[0]) :
             ~(log[0][j][1] = "send" /\ log[0][j][2] = i)
    THEN /\ pc' = "send"
         /\ UNCHANGED <<results, server, raised>>
    ELSE /\ results' = Append(results, InnerHandler(recipient_emails[i], e))
         /\ pc' = "callback"
         /\ UNCHANGED <<server, raised>>

\* The inner try statement was left with exception e for recipient i: an
\* inner clause records it as that recipient's result, or it propagates.
SeqRecipientFailed(e) ==
    IF Catch(InnerClauses, e) = 0
    THEN SeqAbort(e)
    ELSE /\ results' = Append(results, InnerHandler(recipient_emails[i], e))
         /\ pc' = "callback"
         /\ UNCHANGED <<server, raised>>

\* _create_email_message for recipient i.
SeqBuild ==
    /\ pc = "build"
    /\ \E o \in Transport("build", i) :
        /\ log' = Logged(0, "build", i, o)
        /\ IF o = "ok"
           THEN /\ pc' = "send"
                /\ UNCHANGED <<results, server, raised>>
           ELSE SeqRecipientFailed(o)
    /\ UNCHANGED <<call, recipient_emails, progress_callback, min_delay,
                   max_delay, max_workers, fake, i, fut, completed, progress,
                   slept, callNo, prev, summary,
                   parserVars>>
    /\ UNCHANGED collectVars

\* server.send_message(msg) for recipient i, and results.append(result).
SeqSend ==
    /\ pc = "send"
    /\ \E o \in Transport("send", i) :
        /\ log' = Logged(0, "send", i, o)
        /\ IF o = "ok"
           THEN /\ results' = Append(results,
                        EmailSendResult(recipient_emails[i], TRUE, None))
                /\ pc' = "callback"
                /\ UNCHANGED <<server, raised>>
           ELSE SeqRecipientFailed(o)
    /\ UNCHANGED <<call, recipient_emails, progress_callback, min_delay,
                   max_delay, max_workers, fake, i, fut, completed, progress,
                   slept, callNo, prev, summary,
                   parserVars>>
    /\ UNCHANGED collectVars

\* A slip: enumerate counting from 0.
SeqCallbackArgsFromZero(n, res) ==
    [completed |-> n - 1, total |-> Len(recipient_emails),
     result |-> res[Len(res)]]

\* What the callback is called with after recipient n's result.
SeqCallbackArgs(n, res) ==
    [completed |-> n, total |-> total, result |-> res[Len(res)]]

\* A slip: the loop goes on to the next recipient only through the delay.
SeqCallbackStopsWithoutDelay ==
    /\ pc = "callback"
    /\ progress' = IF progress_callback
                   THEN Append(progress, SeqCallbackArgs(i, results))
                   ELSE progress
    /\ IF i < total /\ max_delay > 0
       THEN pc' = "sleep" /\ i' = i
       ELSE pc' = "exit" /\ i' = i
    /\ UNCHANGED <<call, recipient_emails, progress_callback, min_delay,
                   max_delay, max_workers, fake, server, fut, results,
                   completed, slept, log, raised, callNo, prev, summary,
                   parserVars>>
    /\ invoker' = IF progress_callback
                  THEN Append(invoker, MainThread)
                  ELSE invoker
    /\ UNCHANGED <<lock, early, finished_order, callback_error>>

\* A slip: no delay after a recipient whose send failed.
SeqCallbackSkipsDelayAfterFailure ==
    /\ pc = "callback"
    /\ progress' = IF progress_callback
                   THEN Append(progress, SeqCallbackArgs(i, results))
                   ELSE progress
    /\ IF i < total /\ max_delay > 0 /\ results[Len(results)].success
       THEN pc' = "sleep" /\ i' = i
       ELSE IF i < total
       THEN pc' = "build" /\ i' = i + 1
       ELSE pc' = "exit" /\ i' = i
    /\ UNCHANGED <<call, recipient_emails, progress_callback, min_delay,
                   max_delay, max_workers, fake, server, fut, results,
                   completed, slept, log, raised, callNo, prev, summary,
                   parserVars>>
    /\ invoker' = IF progress_callback
                  THEN Append(invoker, MainThread)
                  ELSE invoker
    /\ UNCHANGED <<lock, early, finished_order, callback_error>>

\* if progress_callback: progress_callback(i, total, result); then the
\* loop either sleeps, or goes to the next recipient, or ends.
SeqCallback ==
    /\ pc = "callback"
    /\ progress' = IF progress_callback
                   THEN Append(progress, SeqCallbackArgs(i, results))
                   ELSE progress
    /\ IF i < total /\ max_delay > 0
       THEN pc' = "sleep" /\ i' = i
       ELSE IF i < total
       THEN pc' = "build" /\ i' = i + 1
       ELSE pc' = "exit" /\ i' = i
    /\ UNCHANGED <<call, recipient_emails, progress_callback, min_delay,
                   max_delay, max_workers, fake, server, fut, results,
                   completed, slept, log, raised, callNo, prev, summary,
                   parserVars>>
    /\ invoker' = IF progress_callback
                  THEN Append(invoker, MainThread)
                  ELSE invoker
    /\ UNCHANGED <<lock, early, finished_order, callback_error>>

\* A slip: the delay drawn from [0, hi].
UniformFromZero(lo, hi) == 0..hi

\* random.uniform(lo, hi), in whole seconds: any value of the window.
Uniform(lo, hi) == lo..hi

\* time.sleep(random.uniform(min_delay, max_delay)).
SeqSleep ==
    /\ pc = "sleep"
    /\ \E d \in Uniform(min_delay, max_delay) : slept' = Append(slept, d)
    /\ i' = i + 1
    /\ pc' = "build"
    /\ UNCHANGED <<call, recipient_emails, progress_callback, min_delay,
                   max_delay, max_workers, fake, server, fut, results,
                   completed, progress, log, raised, callNo, prev, summary,
                   parserVars>>
    /\ UNCHANGED collectVars

\* The with block ends normally: SMTP.__exit__ quits and closes.
SeqExit ==
    /\ pc = "exit"
    /\ server' = [server EXCEPT ![0] = "closed"]
    /\ pc' = "done"
    /\ UNCHANGED <<call, recipient_emails, progress_callback, min_delay,
                   max_delay, max_workers, fake, i, fut, results, completed,
                   progress, slept, log, raised, callNo, prev, summary,
                   parserVars>>
    /\ UNCHANGED collectVars

\* ------------------------- _send_single_threaded and send_single_email
\* The unit of work of recipient k returns r, or ends with exception e: in
\* the pool this completes its future, in send_single_email it ends the call.
\* A slip: the units of work share one session.
SessionOfShared(k) == 0

\* The session recipient k's unit of work opens for itself.
SessionOf(k) == k

WorkerDone(k, r, e) ==
    /\ fut' = [fut EXCEPT ![k] = [state |-> "finished", result |-> r,
                                  exception |-> e]]
    /\ finished_order' = Append(finished_order, k)
    /\ IF call = "send_single_email"
       THEN /\ results' = IF e = "none" THEN <<r>> ELSE results
            /\ raised' = e
            /\ pc' = "done"
       ELSE UNCHANGED <<results, raised, pc>>

\* A slip: a failed unit of work also fails the units still queued.
WorkerFailedCancelsQueue(k, e) ==
    /\ server' = [server EXCEPT ![k] = IF @ = "unopened" THEN @ ELSE "closed"]
    /\ fut' = [j \in 1..Len(recipient_emails) |->
                IF j = k \/ fut[j].state = "queued"
                THEN [state |-> "finished",
                      result |-> SingleHandler(recipient_emails[j], e),
                      exception |-> "none"]
                ELSE fut[j]]
    /\ finished_order' =
          finished_order \o <<k>>
              \o SelectSeq([j \in 1..Len(recipient_emails) |-> j],
                           LAMBDA j : j # k /\ fut[j].state = "queued")
    /\ IF call = "send_single_email"
       THEN /\ results' = <<SingleHandler(recipient_emails[k], e)>>
            /\ raised' = "none"
            /\ pc' = "done"
       ELSE UNCHANGED <<results, raised, pc>>

\* Exception e leaves the try block of recipient k's unit of work: its
\* session, if opened, is closed by SMTP.__exit__, and the except clauses
\* turn e into the result.
WorkerFailed(k, e) ==
    /\ server' = [server EXCEPT
                    ![SessionOf(k)] = IF @ = "unopened" THEN @ ELSE "closed"]
    /\ IF Catch(SingleClauses, e) = 0
       THEN WorkerDone(k, NoResult, e)
       ELSE WorkerDone(k, SingleHandler(recipient_emails[k], e), "none")

\* One operation of recipient k's unit of work: op at position op, leaving
\* the session in state after and the unit at position next.
WorkerOp(k, op, next, after) ==
    /\ fut[k].state = op
    /\ \E o \in Transport(op, k) :
        /\ log' = Logged(SessionOf(k), op, k, o)
        /\ IF o # "ok"
           THEN WorkerFailed(k, o)
           ELSE IF op = "send"
           THEN /\ server' = [server EXCEPT ![SessionOf(k)] = "closed"]
                /\ WorkerDone(k,
                        EmailSendResult(recipient_emails[k], TRUE, None),
                        "none")
           ELSE /\ server' = [server EXCEPT ![SessionOf(k)] = after]
                /\ fut' = [fut EXCEPT ![k].state = next]
                /\ UNCHANGED <<results, raised, pc, finished_order>>
    /\ UNCHANGED <<call, recipient_emails, progress_callback, min_delay,
                   max_delay, max_workers, fake, i, completed, progress,
                   slept, callNo, prev, summary,
                   parserVars>>
    /\ UNCHANGED <<lock, invoker, early, callback_error>>

\* _create_email_message, before any connection is made.
WorkerBuild(k) == WorkerOp(k, "build", "connect", "unopened")

\* smtplib.SMTP(host, port), a connection of this unit's own.
WorkerConnect(k) == WorkerOp(k, "connect", "starttls", "connected")

\* A slip: the message sent right after STARTTLS, without a login.
WorkerStartTLSThenSend(k) == WorkerOp(k, "starttls", "send", "tls")

WorkerStartTLS(k) == WorkerOp(k, "starttls", "login", "tls")

WorkerLogin(k) == WorkerOp(k, "login", "send", "auth")

\* server.send_message(msg); the with block ends and the result is returned.
WorkerSend(k) == WorkerOp(k, "send", "finished", "closed")

\* ------------------------------- send_bulk_emails_concurrent (parallel)
Running == {"build", "connect", "starttls", "login", "send"}

InFlight == {k \in 1..total : fut[k].state \in Running}

\* executor.submit for the next recipient of the list.
Submit ==
    /\ pc = "submit"
    /\ \E k \in 1..total :
        /\ fut[k].state = "pending"
        /\ \A j \in 1..(k - 1) : fut[j].state # "pending"
        /\ fut' = [fut EXCEPT ![k].state = "queued"]
        /\ pc' = IF k = total THEN "iterate" ELSE "submit"
    /\ UNCHANGED <<call, recipient_emails, progress_callback, min_delay,
                   max_delay, max_workers, fake, i, server, results,
                   completed, progress, slept, log, raised, callNo, prev, summary,
                   parserVars>>
    /\ UNCHANGED collectVars

\* A slip: one thread per unit of work, whatever max_workers says.
WorkerStartUnbounded(k) ==
    /\ fut[k].state = "queued"
    /\ \A j \in 1..(k - 1) : fut[j].state # "queued"
    /\ fut' = [fut EXCEPT ![k].state = "build"]
    /\ UNCHANGED <<call, recipient_emails, progress_callback, min_delay,
                   max_delay, max_workers, fake, pc, i, server, results,
                   completed, progress, slept, log, raised, callNo, prev, summary,
                   parserVars>>
    /\ UNCHANGED collectVars

\* A slip: a pool thread ends with its first unit of work.
WorkerStartOncePerThread(k) ==
    /\ fut[k].state = "queued"
    /\ \A j \in 1..(k - 1) : fut[j].state # "queued"
    /\ Cardinality({j \in 1..Len(recipient_emails) :
                        fut[j].state \notin {"pending", "queued"}})
          < max_workers
    /\ fut' = [fut EXCEPT ![k].state = "build"]
    /\ UNCHANGED <<call, recipient_emails, progress_callback, min_delay,
                   max_delay, max_workers, fake, pc, i, server, results,
                   completed, progress, slept, log, raised, callNo, prev,
                   summary, parserVars>>
    /\ UNCHANGED collectVars

\* A pool thread takes the oldest queued unit of work; the pool has at most
\* max_workers threads.
WorkerStart(k) ==
    /\ fut[k].state = "queued"
    /\ \A j \in 1..(k - 1) : fut[j].state # "queued"
    /\ Cardinality(InFlight) < max_workers
    /\ fut' = [fut EXCEPT ![k].state = "build"]
    /\ UNCHANGED <<call, recipient_emails, progress_callback, min_delay,
                   max_delay, max_workers, fake, pc, i, server, results,
                   completed, progress, slept, log, raised, callNo, prev, summary,
                   parserVars>>
    /\ UNCHANGED collectVars

\* The calling thread enters the as_completed loop: as_completed notes the
\* futures that are finished already and waits for the others.
AsCompleted ==
    /\ pc = "iterate"
    /\ early' = {k \in 1..total : fut[k].state = "finished"}
    /\ pc' = "as_completed"
    /\ UNCHANGED <<call, recipient_emails, progress_callback, min_delay,
                   max_delay, max_workers, fake, i, server, fut, results,
                   completed, progress, slept, log, raised, callNo, prev,
                   summary, parserVars>>
    /\ UNCHANGED <<lock, invoker, finished_order, callback_error>>

\* A slip: any finished future may be yielded next.
YieldableAnyFinished(k) == fut[k].state = "finished"

\* The future as_completed may yield next. Those finished before the loop
\* began come first, out of a set, in no order that the code controls; the
\* others follow in the order in which they finished.
Yieldable(k) ==
    IF early # {} THEN k \in early
    ELSE finished_order # <<>> /\ k = Head(finished_order)

\* A slip: the count passed is the number of units finished by now.
ParCallbackArgsCountsFinished(n, res) ==
    [completed |->
        Cardinality({k \in 1..Len(recipient_emails) :
                        fut[k].state \in {"finished", "yielded"}}),
     total |-> Len(recipient_emails),
     result |-> res[Len(res)]]

\* What the callback is called with in the as_completed loop.
ParCallbackArgs(n, res) ==
    [completed |-> n, total |-> total, result |-> res[Len(res)]]

\* One turn of the as_completed loop, in the calling thread: a completed
\* future is yielded, future.result() returns its result (or raises what
\* the unit raised), the lock is taken, and the counter and the list follow.
\* Without a callback the lock is released at once.
Collect(k) ==
    /\ pc = "as_completed"
    /\ Yieldable(k)
    /\ fut' = [fut EXCEPT ![k].state = "yielded"]
    /\ IF fut[k].exception # "none"
       THEN /\ raised' = fut[k].exception
            /\ pc' = "shutdown"
            /\ UNCHANGED <<completed, results, lock>>
       ELSE /\ completed' = completed + 1
            /\ results' = Append(results, fut[k].result)
            /\ lock' = IF progress_callback THEN MainThread ELSE None
            /\ pc' = IF progress_callback THEN "in_lock" ELSE pc
            /\ UNCHANGED raised
    /\ UNCHANGED <<call, recipient_emails, progress_callback, min_delay,
                   max_delay, max_workers, fake, i, server, slept, log,
                   progress, callNo, prev, summary, parserVars>>
    /\ early' = early \ {k}
    /\ finished_order' = SelectSeq(finished_order, LAMBDA j : j # k)
    /\ UNCHANGED <<invoker, callback_error>>

\* The unit of work whose result was recorded last.
LastCollected ==
    CHOOSE k \in 1..total : recipient_emails[k] = results[Len(results)].email

\* A slip: the callback run by the pool thread that finished the unit.
CallbackThreadIsWorker(k) == ThreadOf(k)

\* The thread that invokes the callback for recipient k's result: the one
\* that runs the as_completed loop.
CallbackThread(k) == MainThread

\* Still under the lock: progress_callback(completed, total, result); then
\* the lock is released and the loop goes on.
ParCallback ==
    /\ pc = "in_lock"
    /\ progress' = Append(progress, ParCallbackArgs(completed, results))
    /\ invoker' = Append(invoker, CallbackThread(LastCollected))
    /\ lock' = None
    /\ pc' = "as_completed"
    /\ UNCHANGED <<call, recipient_emails, progress_callback, min_delay,
                   max_delay, max_workers, fake, i, server, fut, results,
                   completed, slept, log, raised, callNo, prev, summary,
                   parserVars>>
    /\ UNCHANGED <<early, finished_order, callback_error>>

\* The executor's with block ends (shutdown waits for every unit) and the
\* call returns, after the loop or while an exception unwinds.
ParReturn ==
    /\ pc \in {"as_completed", "shutdown"}
    /\ \A k \in 1..total :
        fut[k].state \in (IF pc = "shutdown" THEN {"finished", "yielded"}
                          ELSE {"yielded"})
    /\ pc' = "done"
    /\ UNCHANGED <<call, recipient_emails, progress_callback, min_delay,
                   max_delay, max_workers, fake, i, server, fut, results,
                   completed, progress, slept, log, raised, callNo, prev, summary,
                   parserVars>>
    /\ UNCHANGED collectVars

\* ------------------------------------------------------ specifications
Sequential ==
    \/ SeqConnect
    \/ SeqStartTLS
    \/ SeqLogin
    \/ SeqBuild
    \/ SeqSend
    \/ SeqCallback
    \/ SeqSleep
    \/ SeqExit

Worker ==
    \/ \E k \in 1..total : WorkerBuild(k)
    \/ \E k \in 1..total : WorkerConnect(k)
    \/ \E k \in 1..total : WorkerStartTLS(k)
    \/ \E k \in 1..total : WorkerLogin(k)
    \/ \E k \in 1..total : WorkerSend(k)

Parallel ==
    \/ Submit
    \/ \E k \in 1..total : WorkerStart(k)
    \/ AsCompleted
    \/ \E k \in 1..total : Collect(k)
    \/ ParCallback
    \/ ParReturn

Next == Sequential \/ Worker \/ Parallel

\* One call of any entry point, against a transport that may fail anywhere.
Spec == Init /\ [][Next]_vars

\* ------------------------------------------------------------ scheduling
\* A step of the unit of work of recipient k.
WorkerStep(k) ==
    /\ k \in 1..total
    /\ \/ WorkerBuild(k)
       \/ WorkerConnect(k)
       \/ WorkerStartTLS(k)
       \/ WorkerLogin(k)
       \/ WorkerSend(k)

\* The calling thread and the pool are not held up for ever when they can
\* take a step, and neither is a unit of work that a pool thread runs: its
\* thread is scheduled and the transport operation it waits for returns.
Fairness ==
    /\ WF_vars(Sequential \/ Parallel)
    /\ \A k \in 1..MaxParallel : WF_vars(WorkerStep(k))

\* A transport whose every operation returns, or raises an exception: for
\* whether a call ends, the class of the exception makes no difference, as
\* every class is caught where the operation is called.
EitherWay(n) ==
    [x \in Ops \X (0..n) |->
        {"ok", IF x[1] = "build" THEN "Exception" ELSE "SMTPException"}]

InitLive ==
    /\ callNo = 1
    /\ prev = <<>>
    /\ ParserIdle
    /\ \/ \E n \in 0..MaxRecipients, w \in DelayWindows :
            Enter(Entry("send_bulk_emails", n, TRUE, w, 1, EitherWay(n)))
       \/ \E n \in 0..MaxParallel, mw \in 1..MaxPool :
            Enter(Entry("send_bulk_emails_concurrent", n, TRUE, <<0, 0>>, mw,
                  EitherWay(n)))

\* One bulk call, its threads scheduled fairly.
SpecLive == InitLive /\ [][Next]_vars /\ Fairness

\* ------------------------------- two strategies on one job, one transport
\* Where a deterministic transport fails every session: nowhere, or at one
\* of the operations that set a session up.
SessionFaults ==
    {<<"none", "ok">>} \cup
    {x \in {"connect", "starttls", "login"} \X Exceptions :
        x[2] \in Raises(x[1])}

\* Where it fails one recipient's message: nowhere, at its build or its send.
MessageFaults ==
    {<<"none", "ok">>} \cup {<<"build", "Exception">>}
        \cup {<<"send", e>> : e \in Raises("send")}

\* The deterministic transport failing sessions at sf and the message of
\* recipient k at mf[k]: each operation has one outcome, a fixed function of
\* the operation and of the recipient.
FixedTransport(n, sf, mf) ==
    [x \in Ops \X (0..n) |->
        IF x[1] \in {"connect", "starttls", "login"}
        THEN {IF sf[1] = x[1] THEN sf[2] ELSE "ok"}
        ELSE IF x[2] = 0 THEN {"ok"}
        ELSE {IF mf[x[2]][1] = x[1] THEN mf[x[2]][2] ELSE "ok"}]

InitEquiv ==
    /\ callNo = 1
    /\ prev = <<>>
    /\ ParserIdle
    /\ \E n \in 0..MaxParallel, sf \in SessionFaults :
        \E mf \in [1..n -> MessageFaults] :
            Enter(Entry("send_bulk_emails", n, TRUE,
                        <<MinDelay, MinDelay + 1>>, 1,
                        FixedTransport(n, sf, mf)))

\* The first call has returned; the same job is dispatched again, this time
\* by send_bulk_emails_concurrent, over the same transport.
SecondCall ==
    /\ callNo = 1
    /\ pc = "done"
    /\ callNo' = 2
    /\ prev' = results
    /\ \E mw \in 1..MaxPool :
        LET e == Entry("send_bulk_emails_concurrent", total, TRUE, <<0, 0>>,
                       mw, fake)
        IN  /\ call' = e.call
            /\ recipient_emails' = e.recipient_emails
            /\ progress_callback' = e.progress_callback
            /\ min_delay' = e.min_delay
            /\ max_delay' = e.max_delay
            /\ max_workers' = e.max_workers
            /\ fake' = e.fake
            /\ pc' = e.pc
            /\ i' = e.i
            /\ server' = e.server
            /\ fut' = e.fut
            /\ results' = e.results
            /\ completed' = e.completed
            /\ progress' = e.progress
            /\ slept' = e.slept
            /\ log' = e.log
            /\ raised' = e.raised
            /\ lock' = e.lock
            /\ invoker' = e.invoker
            /\ early' = e.early
            /\ finished_order' = e.finished_order
            /\ summary' = e.summary
            /\ callback_error' = e.callback_error
    /\ UNCHANGED parserVars

NextEquiv == Next \/ SecondCall

\* Throttled, then Parallel, on the same job over a deterministic transport.
SpecEquiv == InitEquiv /\ [][NextEquiv]_vars

\* ------------------------------------------------- Throttled against Fast
\* The call state is replaced by that of a new call entered at e.
Reenter(e) ==
    /\ call' = e.call
    /\ recipient_emails' = e.recipient_emails
    /\ progress_callback' = e.progress_callback
    /\ min_delay' = e.min_delay
    /\ max_delay' = e.max_delay
    /\ max_workers' = e.max_workers
    /\ fake' = e.fake
    /\ pc' = e.pc
    /\ i' = e.i
    /\ server' = e.server
    /\ fut' = e.fut
    /\ results' = e.results
    /\ completed' = e.completed
    /\ progress' = e.progress
    /\ slept' = e.slept
    /\ log' = e.log
    /\ raised' = e.raised
    /\ lock' = e.lock
    /\ invoker' = e.invoker
    /\ early' = e.early
    /\ finished_order' = e.finished_order
    /\ summary' = e.summary
    /\ callback_error' = e.callback_error

\* speed_mode "normal": send_bulk_emails with the configured delay window.
InitFast ==
    /\ callNo = 1
    /\ prev = <<>>
    /\ ParserIdle
    /\ \E n \in 0..MaxRecipients, sf \in SessionFaults :
        \E mf \in [1..n -> MessageFaults] :
            Enter(Entry("send_bulk_emails", n, TRUE,
                        <<MinDelay, MinDelay + 1>>, 1,
                        FixedTransport(n, sf, mf)))

\* The throttled call has returned; what it returned and what it reported
\* are kept, and the same job is sent again with speed_mode "fast":
\* min_delay = max_delay = 0, over the same transport.
FastCall ==
    /\ callNo = 1
    /\ pc = "done"
    /\ callNo' = 2
    /\ prev' = [results |-> results, progress |-> progress, slept |-> slept]
    /\ Reenter(Entry("send_bulk_emails", total, TRUE, <<0, 0>>, 1, fake))
    /\ UNCHANGED parserVars

NextFast == Sequential \/ FastCall

\* Throttled, then Fast, on the same job over a deterministic transport.
SpecFast == InitFast /\ [][NextFast]_vars

\* ------------------------------------------- calls one after another
\* The bulk entry points.
BulkCalls == {"send_bulk_emails", "send_bulk_emails_concurrent"}

\* A slip: the list kept on the sender and appended to by every call.
ResultsAtEntryKept(before) == before

\* results: List[EmailSendResult] = [], a local of each call.
ResultsAtEntry(before) == <<>>

\* completed = 0, a local of each call.
CompletedAtEntry(before) == 0

\* The state at the entry of call c on the first n addresses, made on the
\* sender and over the transport of the call that has just returned.
EntryAfter(c, n) ==
    [Entry(c, n, TRUE, <<0, 0>>, MaxPool, fake)
        EXCEPT !.results = ResultsAtEntry(results),
               !.completed = CompletedAtEntry(completed)]

\* What is remembered of a call that has returned.
CallRecord == [call |-> call, n |-> total, results |-> results]

\* A new sender is given a job: a bulk call over a deterministic transport.
InitAgain ==
    /\ callNo = 1
    /\ prev = <<>>
    /\ ParserIdle
    /\ \E c \in BulkCalls, n \in 0..MaxAgain, sf \in SessionFaults :
        \E mf \in [1..MaxAgain -> MessageFaults] :
            Enter([Entry(c, n, TRUE, <<0, 0>>, MaxPool, <<>>)
                      EXCEPT !.fake = FixedTransport(MaxAgain, sf, mf)])

\* The first call has returned; the sender is given any other job.
OtherJob ==
    /\ callNo = 1
    /\ pc = "done"
    /\ callNo' = 2
    /\ prev' = <<CallRecord>>
    /\ \E c \in BulkCalls, n \in 0..MaxAgain : Reenter(EntryAfter(c, n))
    /\ UNCHANGED parserVars

\* That call has returned too; the sender is given the first job once more.
FirstJobAgain ==
    /\ callNo = 2
    /\ pc = "done"
    /\ callNo' = 3
    /\ prev' = Append(prev, CallRecord)
    /\ Reenter(EntryAfter(prev[1].call, prev[1].n))
    /\ UNCHANGED parserVars

\* The steps of send_bulk_emails when max_delay = 0: it never sleeps.
SequentialFast ==
    \/ SeqConnect
    \/ SeqStartTLS
    \/ SeqLogin
    \/ SeqBuild
    \/ SeqSend
    \/ SeqCallback
    \/ SeqExit

NextAgain ==
    SequentialFast \/ Worker \/ Parallel \/ OtherJob \/ FirstJobAgain

\* A job on a new sender, any job on the same sender, then the first job
\* again on the same sender, all over one deterministic transport.
SpecAgain == InitAgain /\ [][NextAgain]_vars

\* -------------------------------------------- a progress callback that raises
\* What the progress callback can raise. The one callback of the repository,
\* update_progress, divides, calls Streamlit and appends to a list: what
\* leaves it is an exception of no smtplib class.
CallbackRaises == {"Exception"}

\* progress_callback(i, total, result) raises: the exception leaves the loop
\* and the with block, SMTP.__exit__ closes the session and the outer except
\* clauses handle it.
SeqCallbackRaises ==
    /\ pc = "callback"
    /\ progress_callback
    /\ progress' = Append(progress, SeqCallbackArgs(i, results))
    /\ invoker' = Append(invoker, MainThread)
    /\ \E e \in CallbackRaises :
        /\ callback_error' = e
        /\ SeqAbort(e)
    /\ UNCHANGED <<call, recipient_emails, progress_callback, min_delay,
                   max_delay, max_workers, fake, i, fut, completed, slept,
                   log, callNo, prev, summary, parserVars>>
    /\ UNCHANGED <<lock, early, finished_order>>

InitRaise ==
    /\ callNo = 1
    /\ prev = <<>>
    /\ ParserIdle
    /\ \E n \in 0..MaxRecipients, w \in DelayWindows :
        Enter(Entry("send_bulk_emails", n, TRUE, w, 1, AnyTransport(n)))

NextRaise == Sequential \/ SeqCallbackRaises

\* send_bulk_emails with a callback that may raise at any invocation.
SpecRaise == InitRaise /\ [][NextRaise]_vars

\* ------------------------------------------------------------ get_summary
\* [r for r in results if r.success]
Successful(rs) == SelectSeq(rs, LAMBDA r : r.success)

\* [r for r in results if not r.success]
Failed(rs) == SelectSeq(rs, LAMBDA r : ~r.success)

\* A slip: the percentage computed whatever the total.
SuccessRateUnguarded(n, t) == [times100 |-> n * 100, over |-> t]

\* (n / t * 100) if t > 0 else 0; the quotient is kept as a fraction, and
\* the number 0 is the fraction 0 / 1.
SuccessRate(n, t) ==
    IF t > 0 THEN [times100 |-> n * 100, over |-> t]
             ELSE [times100 |-> 0, over |-> 1]

\* A slip: the failures listed latest first.
FailedEmailsLatestFirst(rs) ==
    [j \in 1..Len(Failed(rs)) |->
        <<Failed(rs)[Len(Failed(rs)) + 1 - j].email,
          Failed(rs)[Len(Failed(rs)) + 1 - j].error>>]

\* [(r.email, r.error) for r in failed]
FailedEmails(rs) ==
    [j \in 1..Len(Failed(rs)) |-> <<Failed(rs)[j].email, Failed(rs)[j].error>>]

get_summary(rs) ==
    [total |-> Len(rs),
     successful |-> Len(Successful(rs)),
     failed |-> Len(Failed(rs)),
     success_rate |-> SuccessRate(Len(Successful(rs)), Len(rs)),
     successful_emails |->
        [j \in 1..Len(Successful(rs)) |-> Successful(rs)[j].email],
     failed_emails |-> FailedEmails(rs)]

\* The results a list given to get_summary is made of: for either of two
\* addresses a success, a failure with a reason and a failure without one.
SampleResults ==
    {EmailSendResult(Address(k), x[1], x[2]) :
        k \in {1, 2},
        x \in {<<TRUE, None>>, <<FALSE, None>>,
               <<FALSE, <<"SMTP error: ", "SMTPException">>>>}}

\* get_summary is called on a list of results.
InitSummary ==
    /\ callNo = 1
    /\ prev = <<>>
    /\ ParserIdle
    /\ \E rs \in UNION {[1..m -> SampleResults] : m \in 0..MaxResults} :
        Enter([Entry("get_summary", 0, FALSE, <<0, 0>>, 1, AnyTransport(0))
                  EXCEPT !.results = rs])

GetSummary ==
    /\ pc = "summary"
    /\ summary' = get_summary(results)
    /\ pc' = "done"
    /\ UNCHANGED <<call, recipient_emails, progress_callback, min_delay,
                   max_delay, max_workers, fake, i, server, fut, results,
                   completed, progress, slept, log, raised, callNo, prev,
                   parserVars>>
    /\ UNCHANGED collectVars

NextSummary == GetSummary

SpecSummary == InitSummary /\ [][NextSummary]_vars

\* ------------------------------------------------------------ EmailParser
\* A string is the list of its characters.
UpperCase ==
    <<"A", "B", "C", "D", "E", "F", "G", "H", "I", "J", "K", "L", "M",
      "N", "O", "P", "Q", "R", "S", "T", "U", "V", "W", "X", "Y", "Z">>

LowerCase ==
    <<"a", "b", "c", "d", "e", "f", "g", "h", "i", "j", "k", "l", "m",
      "n", "o", "p", "q", "r", "s", "t", "u", "v", "w", "x", "y", "z">>

Letters ==
    {UpperCase[j] : j \in 1..Len(UpperCase)}
        \cup {LowerCase[j] : j \in 1..Len(LowerCase)}

Digits == {"0", "1", "2", "3", "4", "5", "6", "7", "8", "9"}

\* The classes of EMAIL_PATTERN: [A-Za-z0-9._%+-], [A-Za-z0-9.-] and
\* [A-Z|a-z], where the bar is a member of the class.
LocalChars == Letters \cup Digits \cup {".", "_", "%", "+", "-"}

DomainChars == Letters \cup Digits \cup {".", "-"}

TldChars == Letters \cup {"|"}

\* \w, for \b.
WordChars == Letters \cup Digits \cup {"_"}

Whitespace == {" ", "\t", "\n"}

\* str.lower() on one character, then on a string.
LowerChar(c) ==
    IF \E j \in 1..Len(UpperCase) : UpperCase[j] = c
    THEN LowerCase[CHOOSE j \in 1..Len(UpperCase) : UpperCase[j] = c]
    ELSE c

lower(str) == [j \in 1..Len(str) |-> LowerChar(str[j])]

\* \b between the characters at p and p + 1 of t (p = 0: before the first).
AtBoundary(t, p) ==
    LET before == p >= 1 /\ t[p] \in WordChars
        after == p + 1 <= Len(t) /\ t[p + 1] \in WordChars
    IN  before # after

\* Where the longest run of characters of class cls starting at s ends;
\* s - 1 when the character at s is not of the class.
RunEnd(t, s, cls) ==
    CHOOSE r \in (s - 1)..Len(t) :
        /\ \A q \in s..r : t[q] \in cls
        /\ r = Len(t) \/ t[r + 1] \notin cls

\* The ends of the matches of \.[A-Z|a-z]{2,}\b after a domain ending at d.
TldEnds(t, d) ==
    IF d + 1 > Len(t) \/ t[d + 1] # "." THEN {}
    ELSE {e \in (d + 3)..RunEnd(t, d + 2, TldChars) : AtBoundary(t, e)}

\* A slip: the local part and the @ left out of the pattern, which then
\* matches any dotted name.
MatchEndBareDomain(t, s) ==
    LET dmax == RunEnd(t, s, DomainChars)
        ds == {d \in s..dmax : TldEnds(t, d) # {}}
        d == CHOOSE x \in ds : \A y \in ds : y <= x
    IN  IF ~AtBoundary(t, s - 1) \/ ds = {}
        THEN 0
        ELSE CHOOSE e \in TldEnds(t, d) : \A y \in TldEnds(t, d) : y <= e

\* Where the match of EMAIL_PATTERN starting at s ends, 0 when there is
\* none. The local part is the whole run before the @; the domain and then
\* the top-level part are greedy, so the match with the longest domain, and
\* for it the longest top-level part, is taken.
MatchEnd(t, s) ==
    LET r == RunEnd(t, s, LocalChars)
        dmax == RunEnd(t, r + 2, DomainChars)
        ds == {d \in (r + 2)..dmax : TldEnds(t, d) # {}}
        d == CHOOSE x \in ds : \A y \in ds : y <= x
    IN  IF \/ ~AtBoundary(t, s - 1)
           \/ r < s
           \/ r + 1 > Len(t)
           \/ t[r + 1] # "@"
           \/ ds = {}
        THEN 0
        ELSE CHOOSE e \in TldEnds(t, d) : \A y \in TldEnds(t, d) : y <= e

\* EMAIL_PATTERN.findall(text): the matches from left to right, each search
\* starting where the last match ended.
RECURSIVE FindAll(_, _)
FindAll(t, s) ==
    IF s > Len(t) THEN <<>>
    ELSE LET e == MatchEnd(t, s) IN
         IF e = 0 THEN FindAll(t, s + 1)
         ELSE <<SubSeq(t, s, e)>> \o FindAll(t, e + 1)

\* not text or not text.strip()
IsBlank(t) == \A j \in 1..Len(t) : t[j] \in Whitespace

extract_emails(t) == IF IsBlank(t) THEN <<>> ELSE FindAll(t, 1)

\* email_validator's verdict, EmailNotValidError turned into False.
validate_email_address(email) == email \in validator

\* A slip: a repeated address is forgotten once it was skipped.
RECURSIVE DedupLoopForgets(_, _, _)
DedupLoopForgets(rest, seen, unique) ==
    IF rest = <<>> THEN unique
    ELSE LET email == Head(rest)
             email_lower == lower(email)
         IN  IF email_lower \notin seen
             THEN DedupLoopForgets(Tail(rest), seen \cup {email_lower},
                                   Append(unique, email))
             ELSE DedupLoopForgets(Tail(rest), seen \ {email_lower}, unique)

\* A slip: the address itself, not its lowercase form, is remembered.
RECURSIVE DedupLoopCaseSensitive(_, _, _)
DedupLoopCaseSensitive(rest, seen, unique) ==
    IF rest = <<>> THEN unique
    ELSE LET email == Head(rest)
         IN  IF email \notin seen
             THEN DedupLoopCaseSensitive(Tail(rest), seen \cup {email},
                                         Append(unique, email))
             ELSE DedupLoopCaseSensitive(Tail(rest), seen, unique)

\* A slip: a new address is put in front of those already kept.
RECURSIVE DedupLoopPrepends(_, _, _)
DedupLoopPrepends(rest, seen, unique) ==
    IF rest = <<>> THEN unique
    ELSE LET email == Head(rest)
             email_lower == lower(email)
         IN  IF email_lower \notin seen
             THEN DedupLoopPrepends(Tail(rest), seen \cup {email_lower},
                                    <<email>> \o unique)
             ELSE DedupLoopPrepends(Tail(rest), seen, unique)

\* The loop of deduplicate_emails over the addresses still to look at.
RECURSIVE DedupLoop(_, _, _)
DedupLoop(rest, seen, unique) ==
    IF rest = <<>> THEN unique
    ELSE LET email == Head(rest)
             email_lower == lower(email)
         IN  IF email_lower \notin seen
             THEN DedupLoop(Tail(rest), seen \cup {email_lower},
                            Append(unique, email))
             ELSE DedupLoop(Tail(rest), seen, unique)

deduplicate_emails(es) == DedupLoop(es, {}, <<>>)

\* A slip: the addresses are validated as extracted, before deduplication.
UniqueOfNothingRemoved(es) == es

\* Step 2 of parse_and_validate.
UniqueOf(es) == deduplicate_emails(es)

\* A slip: the two branches of the validation loop exchanged.
ValidOfRejected(es) == SelectSeq(es, LAMBDA e : ~validate_email_address(e))

\* Step 3 of parse_and_validate: the loop that sorts the unique addresses
\* into valid_emails and invalid_emails, each in the order met.
ValidOf(es) == SelectSeq(es, validate_email_address)

\* A slip: the loop without its else branch.
InvalidOfNothingKept(es) == <<>>

InvalidOf(es) == SelectSeq(es, LAMBDA e : ~validate_email_address(e))

\* f"{n} duplicates removed"
DuplicatesInfo(n) == <<n, " duplicates removed">>

\* No call into EmailSender is under way.
SenderIdle ==
    /\ callNo = 1
    /\ prev = <<>>
    /\ Enter(Entry("none", 0, FALSE, <<0, 0>>, 1, AnyTransport(0)))

SeqUpTo(S, n) == UNION {[1..m -> S] : m \in 0..n}

\* The strings deduplicate_emails is given: addresses, the same in other
\* casings, and a string that is no address.
Tokens ==
    {<<"a", "@", "b", ".", "i", "o">>, <<"A", "@", "B", ".", "I", "O">>, <<"a", "@", "B", ".", "i", "o">>,
     <<"c", "@", "d", ".", "i", "o">>, <<"h", "i">>}

\* The words of a pasted text: addresses, one in capitals, one followed by
\* a comma, one without a top-level part, a plain word and a blank.
Words ==
    {<<"a", "@", "b", ".", "i", "o">>, <<"A", "@", "B", ".", "I", "O">>, <<"c", "@", "d", ".", "i", "o", ",">>,
     <<"e", "@", "f">>, <<"h", "i">>, <<" ">>}

RECURSIVE Join(_)
Join(ws) ==
    IF ws = <<>> THEN <<>>
    ELSE IF Len(ws) = 1 THEN Head(ws)
    ELSE Head(ws) \o <<" ">> \o Join(Tail(ws))

\* The addresses a text made of Words can hold.
Addresses ==
    UNION {{extract_emails(w)[j] : j \in 1..Len(extract_emails(w))} :
              w \in Words}

\* deduplicate_emails is called on a list of strings.
InitDedup ==
    /\ SenderIdle
    /\ parse_pc = "deduplicate"
    /\ tokens \in SeqUpTo(Tokens, MaxTokens)
    /\ text = <<>>
    /\ validator = {}
    /\ potential_emails = <<>>
    /\ unique_emails = <<>>
    /\ duplicates_count = 0
    /\ valid_emails = <<>>
    /\ invalid_emails = <<>>
    /\ returned = <<>>
    /\ again = <<>>

Deduplicate ==
    /\ parse_pc = "deduplicate"
    /\ returned' = deduplicate_emails(tokens)
    /\ parse_pc' = "again"
    /\ UNCHANGED <<text, validator, tokens, potential_emails, unique_emails,
                   duplicates_count, valid_emails, invalid_emails, again>>
    /\ UNCHANGED senderVars

\* The list it returned is given to deduplicate_emails once more.
DeduplicateAgain ==
    /\ parse_pc = "again"
    /\ again' = deduplicate_emails(returned)
    /\ parse_pc' = "done"
    /\ UNCHANGED <<text, validator, tokens, potential_emails, unique_emails,
                   duplicates_count, valid_emails, invalid_emails, returned>>
    /\ UNCHANGED senderVars

NextDedup == Deduplicate \/ DeduplicateAgain

SpecDedup == InitDedup /\ [][NextDedup]_vars

\* A text with a word that has an @ but no dotted top-level part.
NoTldText ==
    <<"r", "e", "a", "c", "h", " ", "m", "e", " ", "a", "t", " ", "n", "o",
    "t", "-", "a", "n", "-", "e", "m", "a", "i", "l", " ", "o", "r", " ",
    "a", "d", "m", "i", "n", "@", "d", "o", "m", "a", "i", "n">>

\* A text without any @, naming a site.
NoAddressText ==
    <<"n", "o", " ", "m", "a", "i", "l", " ", "h", "e", "r", "e", ",", " ",
    "s", "e", "e", " ", "b", ".", "i", "o">>

Examples == {NoTldText, NoAddressText}

\* The number of duplicates a caller reads off the third list returned:
\* the count of its message, 0 when the list is empty.
DuplicatesRemoved(info) == IF info = <<>> THEN 0 ELSE info[1][1]

\* parse_and_validate is called on a text, with a validator of any verdicts.
InitParse ==
    /\ SenderIdle
    /\ parse_pc = "extract"
    /\ text \in {Join(ws) : ws \in SeqUpTo(Words, MaxWords)} \cup Examples
    /\ validator \in SUBSET Addresses
    /\ tokens = <<>>
    /\ potential_emails = <<>>
    /\ unique_emails = <<>>
    /\ duplicates_count = 0
    /\ valid_emails = <<>>
    /\ invalid_emails = <<>>
    /\ returned = <<>>
    /\ again = <<>>

\* Step 1, and the early return when nothing was extracted.
ParseExtract ==
    /\ parse_pc = "extract"
    /\ potential_emails' = extract_emails(text)
    /\ IF extract_emails(text) = <<>>
       THEN /\ returned' = <<<<>>, <<>>, <<>>>>
            /\ parse_pc' = "done"
       ELSE /\ returned' = returned
            /\ parse_pc' = "dedup"
    /\ UNCHANGED <<text, validator, tokens, unique_emails, duplicates_count,
                   valid_emails, invalid_emails, again>>
    /\ UNCHANGED senderVars

ParseDedup ==
    /\ parse_pc = "dedup"
    /\ unique_emails' = UniqueOf(potential_emails)
    /\ duplicates_count' = Len(potential_emails)
                            - Len(UniqueOf(potential_emails))
    /\ parse_pc' = "validate"
    /\ UNCHANGED <<text, validator, tokens, potential_emails, valid_emails,
                   invalid_emails, returned, again>>
    /\ UNCHANGED senderVars

ParseValidate ==
    /\ parse_pc = "validate"
    /\ valid_emails' = ValidOf(unique_emails)
    /\ invalid_emails' = InvalidOf(unique_emails)
    /\ parse_pc' = "return"
    /\ UNCHANGED <<text, validator, tokens, potential_emails, unique_emails,
                   duplicates_count, returned, again>>
    /\ UNCHANGED senderVars

ParseReturn ==
    /\ parse_pc = "return"
    /\ returned' = <<valid_emails, invalid_emails,
                     <<DuplicatesInfo(duplicates_count)>>>>
    /\ parse_pc' = "done"
    /\ UNCHANGED <<text, validator, tokens, potential_emails, unique_emails,
                   duplicates_count, valid_emails, invalid_emails, again>>
    /\ UNCHANGED senderVars

NextParse == ParseExtract \/ ParseDedup \/ ParseValidate \/ ParseReturn

SpecParse == InitParse /\ [][NextParse]_vars

\* ---------------------------------------------------------- properties
\* What the thread of session s asked of the transport so far.
Asked(s) == {log[s][j] : j \in 1..Len(log[s])}

AllAsked == UNION {Asked(s) : s \in Sessions}

\* The recipients a send_message was attempted for.
SendAttempted == {k \in 1..total : \E x \in AllAsked : x[1] = "send" /\ x[2] = k}

IsSequential == call = "send_bulk_emails"

IsConcurrent == call = "send_bulk_emails_concurrent"

Returned == pc = "done"

AuthFailedReason == <<"Authentication failed - check credentials">>

\* The positions of the result list that hold recipient k's address.
ResultsOf(k) ==
    {j \in 1..Len(results) : results[j].email = recipient_emails[k]}

\* C1: when send_bulk_emails or send_bulk_emails_concurrent has returned,
\* the result list has exactly as many entries as the job has recipients and
\* every recipient's address is in it exactly once, whatever failed.
C1_Cardinality ==
    (Returned /\ call # "send_single_email") =>
        /\ Len(results) = total
        /\ \A k \in 1..total : Cardinality(ResultsOf(k)) = 1

\* A concurrent job of two recipients has returned, the second recipient's
\* result first, one of the two a failure.
C1_Witness ==
    /\ Returned /\ IsConcurrent /\ total = 2
    /\ results[1].email = recipient_emails[2]
    /\ results[1].success /\ ~results[2].success

\* C2: no exception leaves send_single_email, send_bulk_emails or
\* send_bulk_emails_concurrent, whichever of connect, STARTTLS, login, the
\* message build and send fails: the call never ends by raising.
C2_NoExceptionEscapes == raised = "none"

\* A sequential call whose connection attempt failed with a plain exception
\* has returned a failure for each of its recipients.
C2_Witness ==
    /\ Returned /\ IsSequential /\ total >= 2
    /\ <<"connect", 0, "Exception">> \in Asked(0)
    /\ Len(results) = total
    /\ \A j \in 1..Len(results) : ~results[j].success

\* C3: when a bulk call that was given a callback has returned, the callback
\* has been invoked exactly once per recipient, in every strategy and also
\* after a failed connect or login.
C3_CallbackPerRecipient ==
    (Returned /\ progress_callback /\ call # "send_single_email") =>
        Len(progress) = total

\* C4: the j-th invocation of the progress callback within a call carries
\* completedCount j (1 first, then one more each time) and the number of
\* recipients as total, in every strategy.
C4_CallbackCounts ==
    \A j \in 1..Len(progress) :
        /\ progress[j].completed = j
        /\ progress[j].total = total

\* A throttled job has returned after three invocations of the callback,
\* the second of them for a failed recipient.
C4_Witness ==
    /\ IsSequential /\ Returned /\ max_delay > 0
    /\ Len(progress) = 3
    /\ ~progress[2].result.success /\ progress[3].result.success

\* The login of the shared session was refused.
SharedLoginRefused ==
    /\ IsSequential
    /\ <<"login", 0, "SMTPAuthenticationError">> \in Asked(0)

\* C5: in send_bulk_emails (Throttled and Fast), when the login of the
\* shared session fails with an authentication error, the call ends with one
\* failure per recipient, in list order, each with the authentication-failed
\* reason, and no send was attempted.
C5_AuthFailureFailsBatch ==
    SharedLoginRefused =>
        /\ Returned
        /\ results = [k \in 1..total |->
                        EmailSendResult(recipient_emails[k], FALSE,
                                        AuthFailedReason)]
        /\ SendAttempted = {}

\* The login of a job of at least two recipients was refused.
C5_Witness == SharedLoginRefused /\ total >= 2 /\ Len(results) = total

\* The first send of the shared session reported an authentication failure.
FirstSendRefused ==
    /\ IsSequential
    /\ <<"send", 1, "SMTPAuthenticationError">> \in Asked(0)

\* C6: in send_bulk_emails (Throttled and Fast), when the transport reports
\* an authentication failure on the first send, every recipient of the job
\* ends as a failure with the authentication-failed reason and no send
\* after the first is attempted.
C6_AuthFailureOnFirstSend ==
    (FirstSendRefused /\ Returned) =>
        /\ \A k \in 1..total :
            /\ k \in 1..Len(results)
            /\ ~results[k].success
            /\ results[k].error = AuthFailedReason
        /\ SendAttempted = {1}

\* The shared connection was lost during the send to recipient k.
ConnectionLostAt(k) ==
    /\ IsSequential
    /\ <<"send", k, "SMTPServerDisconnected">> \in Asked(0)

\* C7: in send_bulk_emails (Throttled and Fast), when the shared connection
\* is lost during the send to recipient k, every recipient after k ends as a
\* failure with a connection-error reason and no send is attempted for it.
C7_ConnectionLossAbortsBatch ==
    \A k \in 1..total :
        (ConnectionLostAt(k) /\ Returned) =>
            \A j \in (k + 1)..total :
                /\ j \in 1..Len(results)
                /\ ~results[j].success
                /\ results[j].error[1] = "Connection error: "
                /\ j \notin SendAttempted

\* Recipient k's message could not be built or sent.
MessageFailed(k) ==
    \E x \in Asked(0) : x[1] \in {"build", "send"} /\ x[2] = k /\ x[3] # "ok"

\* C8: in send_bulk_emails (Throttled and Fast), a failure of the build or
\* of the send of recipient k's message, whatever was raised, is recorded as
\* recipient k's failure only: every later recipient is still attempted, on
\* the one session the call opened, and succeeds exactly when its own send
\* does.
C8_RecipientLocalFailure ==
    \A k \in 1..total :
        (IsSequential /\ Returned /\ MessageFailed(k)) =>
            /\ Len(results) = total
            /\ results[k].email = recipient_emails[k]
            /\ ~results[k].success
            /\ results[k].error[1] \in {"SMTP error: ", "Error: "}
            /\ Cardinality({x \in Asked(0) : x[1] = "connect"}) = 1
            /\ \A j \in (k + 1)..total :
                /\ \E x \in Asked(0) : x[1] = "build" /\ x[2] = j
                /\ results[j].email = recipient_emails[j]
                /\ results[j].success <=> <<"send", j, "ok">> \in Asked(0)

\* The relay rejected the first recipient, the second message could not be
\* built, and the third recipient was still sent to, successfully.
C8_Witness ==
    /\ IsSequential /\ Returned /\ total >= 3
    /\ <<"send", 1, "SMTPException">> \in Asked(0)
    /\ <<"build", 2, "Exception">> \in Asked(0)
    /\ results[3].success

\* The operations of one unit of work, in the order it performs them.
UnitOps == <<"build", "connect", "starttls", "login", "send">>

\* The unit of work of recipient k went through its own operations in order
\* and stopped only at the first of them that failed.
OwnAttempt(k) ==
    /\ Len(log[k]) \in 1..Len(UnitOps)
    /\ \A n \in 1..Len(log[k]) :
        /\ log[k][n][1] = UnitOps[n]
        /\ log[k][n][2] = k
        /\ n < Len(log[k]) => log[k][n][3] = "ok"
    /\ Len(log[k]) < Len(UnitOps) => log[k][Len(log[k])][3] # "ok"

\* The outcome of the last operation recipient k's unit of work performed.
OwnLast(k) == log[k][Len(log[k])][3]

\* C9: in send_bulk_emails_concurrent (Parallel), every recipient gets its
\* own build/connect/STARTTLS/login/send attempt, stopped only by a failure
\* of its own, and its result is decided by the outcomes of its own session
\* alone: success exactly when its own five operations all succeeded, and
\* otherwise a failure that carries its own exception. What happened to
\* another recipient changes neither.
C9_WorkerIsolation ==
    IsConcurrent =>
        \A k \in 1..total :
            (Returned \/ fut[k].state \in {"finished", "yielded"}) =>
                /\ OwnAttempt(k)
                /\ fut[k].result.email = recipient_emails[k]
                /\ fut[k].result.success <=> OwnLast(k) = "ok"
                /\ ~fut[k].result.success =>
                    IF OwnLast(k) = "SMTPAuthenticationError"
                    THEN fut[k].result.error = AuthFailedReason
                    ELSE fut[k].result.error[2] = OwnLast(k)
                /\ Returned =>
                    \E j \in 1..Len(results) : results[j] = fut[k].result

\* A concurrent job has returned where the first recipient's login was
\* refused and its connection closed before the second recipient, queued
\* behind it, connected, logged in and was sent to.
C9_Witness ==
    /\ IsConcurrent /\ Returned /\ total >= 2 /\ max_workers = 1
    /\ OwnLast(1) = "SMTPAuthenticationError"
    /\ results[1] =
        EmailSendResult(recipient_emails[1], FALSE, AuthFailedReason)
    /\ results[2] = EmailSendResult(recipient_emails[2], TRUE, None)

\* The (address, success) pairs of a result list, with their multiplicity.
PairCount(res, email, ok) ==
    Cardinality({j \in 1..Len(res) :
                    res[j].email = email /\ res[j].success = ok})

\* C10: over a deterministic transport (every operation's outcome a fixed
\* function of the operation and of the recipient), the multiset of
\* (address, success/failure) pairs returned by send_bulk_emails_concurrent
\* is the one send_bulk_emails (Throttled) returned for the same job, for
\* every interleaving of the workers.
C10_StrategiesAgree ==
    (callNo = 2 /\ Returned) =>
        /\ Len(results) = Len(prev)
        /\ \A k \in 1..total, ok \in BOOLEAN :
            PairCount(results, recipient_emails[k], ok)
                = PairCount(prev, recipient_emails[k], ok)

\* Both strategies have returned for a job of two recipients of which the
\* transport rejects the first; the parallel results came in the other order.
C10_Witness ==
    /\ callNo = 2 /\ Returned /\ total >= 2
    /\ ~prev[1].success /\ prev[2].success
    /\ results[1] = prev[2]
    /\ results[2].email = prev[1].email

\* C11: in send_bulk_emails (Throttled and Fast) the result list is in
\* recipient-list order at every moment and when it is returned: its i-th
\* entry carries the i-th recipient's address, on the normal path and after
\* a failed login or a failed connection.
C11_ListOrder ==
    IsSequential =>
        /\ Len(results) <= total
        /\ \A j \in 1..Len(results) : results[j].email = recipient_emails[j]

\* A job of at least two recipients whose login was refused has returned
\* its failures.
C11_Witness ==
    /\ SharedLoginRefused /\ Returned /\ total >= 2
    /\ results[2].email = recipient_emails[2]

\* The sessions that are open: connected and not yet closed.
OpenSessions ==
    {s \in Sessions : server[s] \in {"connected", "tls", "auth"}}

\* C12: in send_bulk_emails_concurrent with pool width max_workers, at most
\* max_workers units of work are in flight at any moment, so at most
\* max_workers sessions are open; a unit beyond that stays queued.
C12_PoolWidth ==
    IsConcurrent =>
        /\ Cardinality(InFlight) <= max_workers
        /\ Cardinality(OpenSessions) <= max_workers
        /\ OpenSessions \subseteq InFlight

\* With a pool of one, the first recipient's session is open and logged in
\* while the second recipient waits in the queue.
C12_Witness ==
    /\ IsConcurrent /\ max_workers = 1 /\ total >= 2
    /\ server[1] = "auth"
    /\ fut[2].state = "queued"

\* C13: when send_single_email, send_bulk_emails or
\* send_bulk_emails_concurrent returns, no session the call opened is still
\* open, whether every send succeeded, a send failed, or STARTTLS or the
\* login failed.
C13_SessionsClosed == Returned => OpenSessions = {}

\* A sequential call has returned after STARTTLS failed on the session it
\* had opened.
C13_Witness ==
    /\ IsSequential /\ Returned /\ total >= 1
    /\ <<"starttls", 0, "SMTPException">> \in Asked(0)
    /\ server[0] = "closed"

RECURSIVE Sum(_)
Sum(ds) == IF ds = <<>> THEN 0 ELSE Head(ds) + Sum(Tail(ds))

IsThrottled == IsSequential /\ max_delay > 0

SessionEstablished == <<"login", 0, "ok">> \in Asked(0)

\* C14 as stated: whenever a throttled call on K recipients has returned,
\* K - 1 delays were performed, each within [min_delay, max_delay], and
\* their sum is at least (K - 1) * min_delay.
C14_DelayAfterEachSend ==
    (IsThrottled /\ Returned /\ total >= 1) =>
        /\ Len(slept) = total - 1
        /\ \A j \in 1..Len(slept) :
              min_delay <= slept[j] /\ slept[j] <= max_delay
        /\ Sum(slept) >= (total - 1) * min_delay

\* C14, amended: in a throttled call every delay performed is within
\* [min_delay, max_delay] and one delay has been performed after each
\* recipient's attempt before the next one starts; when the call returns
\* after its session was logged in, K - 1 delays were performed and their
\* sum is at least (K - 1) * min_delay. A call whose connection, STARTTLS or
\* login failed returns without any delay.
C14_DelayBetweenRecipients ==
    IsThrottled =>
        /\ \A j \in 1..Len(slept) :
              min_delay <= slept[j] /\ slept[j] <= max_delay
        /\ Len(slept) = IF i = 0 THEN 0 ELSE i - 1
        /\ (Returned /\ SessionEstablished /\ total >= 1) =>
              /\ Len(slept) = total - 1
              /\ Sum(slept) >= (total - 1) * min_delay
        /\ (Returned /\ ~SessionEstablished) => slept = <<>>

\* A throttled call on three recipients has returned after two delays, the
\* second recipient's send having failed.
C14_Witness ==
    /\ IsThrottled /\ Returned /\ SessionEstablished
    /\ total = 3 /\ Len(slept) = 2
    /\ <<"send", 2, "SMTPException">> \in Asked(0)
    /\ Sum(slept) >= 2 * min_delay

\* C15: send_bulk_emails with min_delay = max_delay = 0 (Fast) never
\* sleeps, and when it returns on the job and the transport outcomes a
\* throttled call was given, its result list (addresses, outcomes, reasons,
\* order) and its callback sequence are those of the throttled call.
C15_FastIsThrottledWithoutDelay ==
    (callNo = 2 /\ IsSequential /\ max_delay = 0) =>
        /\ slept = <<>>
        /\ Returned => /\ results = prev.results
                       /\ progress = prev.progress

\* The fast call has returned on three recipients, the second one's send
\* refused, after a throttled call that slept twice.
C15_Witness ==
    /\ callNo = 2 /\ Returned /\ max_delay = 0 /\ total = 3
    /\ Len(prev.slept) = 2
    /\ slept = <<>>
    /\ ~results[2].success /\ results[3].success
    /\ Len(progress) = 3

\* The exceptions that kept the shared session from being established: what
\* connect or STARTTLS raised.
EstablishFailures ==
    {x[3] : x \in {y \in Asked(0) : /\ y[1] \in {"connect", "starttls"}
                                    /\ y[3] # "ok"}}

\* C16: in send_bulk_emails, once the connection attempt or STARTTLS has
\* failed, the call has returned without raising, with one failed result
\* per recipient in list order, each carrying the connection-error reason
\* of that failure, and neither a login nor a send was attempted.
C16_EstablishFailure ==
    (IsSequential /\ EstablishFailures # {}) =>
        /\ Returned /\ raised = "none"
        /\ Len(results) = total
        /\ \A k \in 1..total : \E e \in EstablishFailures :
              results[k] = EmailSendResult(recipient_emails[k], FALSE,
                                           <<"Connection error: ", e>>)
        /\ SendAttempted = {}
        /\ \A x \in Asked(0) : x[1] \in {"connect", "starttls"}

\* A call on three recipients has returned their failures after the
\* connection attempt failed.
C16_Witness ==
    /\ IsSequential /\ Returned /\ total = 3
    /\ Asked(0) = {<<"connect", 0, "SMTPException">>}
    /\ results[3].error = <<"Connection error: ", "SMTPException">>

\* The positions of list out holding a string equal to e when lowercased.
SameLowercased(out, e) ==
    {a \in 1..Len(out) : lower(out[a]) = lower(e)}

\* The first position of list es holding a string equal to es[j] when
\* lowercased.
FirstOccurrence(es, j) ==
    CHOOSE f \in 1..j :
        /\ lower(es[f]) = lower(es[j])
        /\ \A g \in 1..(f - 1) : lower(es[g]) # lower(es[j])

\* No two entries of list out are equal when lowercased.
CaseInsensitivelyUnique(out) ==
    \A a, b \in 1..Len(out) : a # b => lower(out[a]) # lower(out[b])

\* C17: deduplicate_emails is idempotent: applied to the list it returned,
\* it returns that list again.
C17_Idempotent ==
    /\ parse_pc = "done" => again = returned
    /\ deduplicate_emails(deduplicate_emails(tokens))
          = deduplicate_emails(tokens)

\* deduplicate_emails has been applied twice to three strings that are equal
\* when lowercased; both applications returned the first one alone.
C17_Witness ==
    /\ parse_pc = "done" /\ Len(tokens) = 3
    /\ tokens[1] # tokens[2]
    /\ Cardinality(SameLowercased(tokens, tokens[1])) = 3
    /\ returned = <<tokens[1]>>
    /\ again = returned

\* C18: the list deduplicate_emails returns has no two entries that are
\* equal when lowercased; for every string of the input exactly one entry
\* equals it when lowercased, and that entry is the first such string of
\* the input, in its original casing.
C18_FirstOccurrenceSurvives ==
    parse_pc \in {"again", "done"} =>
        /\ CaseInsensitivelyUnique(returned)
        /\ \A j \in 1..Len(tokens) :
              /\ Cardinality(SameLowercased(returned, tokens[j])) = 1
              /\ \A a \in SameLowercased(returned, tokens[j]) :
                    returned[a] = tokens[FirstOccurrence(tokens, j)]

\* An address in capitals, another address, then the first one in small
\* letters: the capitals survive, the small letters are dropped.
C18_Witness ==
    /\ parse_pc = "again" /\ Len(tokens) = 3
    /\ tokens[1] # lower(tokens[1])
    /\ tokens[3] = lower(tokens[1])
    /\ lower(tokens[2]) # lower(tokens[1])
    /\ returned = <<tokens[1], tokens[2]>>

\* The number of strings of list es that differ when lowercased.
DistinctLowercased(es) == Cardinality({lower(es[j]) : j \in 1..Len(es)})

ParseReturned == parse_pc = "done" /\ potential_emails # <<>>

C20_ValidAcceptedAndUnique ==
    parse_pc = "done" =>
        /\ \A a \in 1..Len(returned[1]) :
              validate_email_address(returned[1][a])
        /\ CaseInsensitivelyUnique(returned[1])

\* A text of three addresses -- one accepted, one rejected, the accepted one
\* again in another casing -- has returned the accepted one alone as valid.
C20_Witness ==
    /\ ParseReturned /\ Len(potential_emails) = 3
    /\ potential_emails[1] # potential_emails[3]
    /\ lower(potential_emails[1]) = lower(potential_emails[3])
    /\ returned[1] = <<potential_emails[1]>>
    /\ returned[2] = <<potential_emails[2]>>

\* The word of NoTldText that has an @.
AdminAtDomain ==
    <<"a", "d", "m", "i", "n", "@", "d", "o", "m", "a", "i", "n">>

\* C21: parse_and_validate on "reach me at not-an-email or admin@domain"
\* returns no valid address, reports admin@domain, the token with an @ but
\* no dotted top-level part, as the one invalid address, and removes no
\* duplicate.
C21_NoTldReportedInvalid ==
    (parse_pc = "done" /\ text = NoTldText) =>
        /\ returned[1] = <<>>
        /\ returned[2] = <<AdminAtDomain>>
        /\ DuplicatesRemoved(returned[3]) = 0

\* C22: for a text that is empty, all whitespace or without any @,
\* extract_emails returns the empty list and parse_and_validate goes from
\* the extraction straight to its return of three empty lists, which a
\* caller reads as no valid address, no invalid address and 0 duplicates.
C22_NothingToExtract ==
    (IsBlank(text) \/ \A j \in 1..Len(text) : text[j] # "@") =>
        /\ extract_emails(text) = <<>>
        /\ parse_pc \in {"extract", "done"}
        /\ parse_pc = "done" =>
              /\ returned = <<<<>>, <<>>, <<>>>>
              /\ DuplicatesRemoved(returned[3]) = 0

\* parse_and_validate has returned on a text of words and a dotted name
\* but no @.
C22_Witness ==
    /\ parse_pc = "done" /\ text = NoAddressText
    /\ returned = <<<<>>, <<>>, <<>>>>

\* The positions of the failed results of the list given to get_summary.
FailedPositions == {j \in 1..Len(results) : ~results[j].success}

\* The position of the k-th failed result.
FailedPosition(k) ==
    CHOOSE j \in FailedPositions :
        Cardinality({h \in FailedPositions : h <= j}) = k

Summarised == call = "get_summary" /\ pc = "done"

\* C23: get_summary returns the length of the list as total; successful is
\* the number of results whose outcome is success and failed the number of
\* the others, so that they add up to total; the success rate is 0 for the
\* empty list and otherwise successful / total * 100.
C23_SummaryCounts ==
    Summarised =>
        /\ summary.total = Len(results)
        /\ summary.successful
              = Cardinality({j \in 1..Len(results) : results[j].success})
        /\ summary.failed = Cardinality(FailedPositions)
        /\ summary.successful + summary.failed = summary.total
        /\ Len(results) = 0 =>
              summary.success_rate = [times100 |-> 0, over |-> 1]
        /\ Len(results) > 0 =>
              summary.success_rate = [times100 |-> summary.successful * 100,
                                      over |-> Len(results)]

\* get_summary has returned on the empty list.
C23_Witness ==
    /\ Summarised /\ results = <<>>
    /\ summary.total = 0 /\ summary.success_rate.times100 = 0

\* C24: the failed_emails of get_summary hold, for the k-th failed result of
\* the list, its address and its reason at position k, and nothing else;
\* get_summary never changes the list it is given.
C24_FailedDetails ==
    /\ [](Summarised =>
            /\ Len(summary.failed_emails) = Cardinality(FailedPositions)
            /\ \A k \in 1..Len(summary.failed_emails) :
                  summary.failed_emails[k]
                      = <<results[FailedPosition(k)].email,
                          results[FailedPosition(k)].error>>)
    /\ [][call = "get_summary" => results' = results]_vars

\* get_summary has returned on a failure, a success and another failure of
\* another reason: the two failures are listed in that order.
C24_Witness ==
    /\ Summarised /\ Len(results) = 3
    /\ ~results[1].success /\ results[2].success /\ ~results[3].success
    /\ results[1].error # results[3].error
    /\ summary.failed_emails = <<<<results[1].email, results[1].error>>,
                                 <<results[3].email, results[3].error>>>>

\* What was asked of the transport on session s, without the building of
\* the messages, which needs no session.
SessionOps(s) == SelectSeq(log[s], LAMBDA x : x[1] # "build")

\* C25: on every session of every strategy, connect comes first, STARTTLS
\* only after the connection was made, the login only after STARTTLS
\* succeeded and a send only after the login succeeded; once a session is
\* closed it stays closed and nothing more is asked on it.
C25_SessionOrder ==
    /\ [](\A s \in Sessions : \A j \in 1..Len(SessionOps(s)) :
            LET ops == SessionOps(s) IN
            /\ ops[j][1] = "connect" => j = 1
            /\ ops[j][1] = "starttls" =>
                  j = 2 /\ ops[1] = <<"connect", ops[1][2], "ok">>
            /\ ops[j][1] = "login" =>
                  j = 3 /\ ops[2] = <<"starttls", ops[2][2], "ok">>
            /\ ops[j][1] = "send" =>
                  j >= 4 /\ ops[3] = <<"login", ops[3][2], "ok">>)
    /\ [][\A s \in Sessions :
            server[s] = "closed" =>
                server'[s] = "closed" /\ SessionOps(s)' = SessionOps(s)]_vars

\* The shared session of a sequential call was closed after connect,
\* STARTTLS, login and the sends to two recipients, the first one refused.
C25_Witness ==
    /\ IsSequential /\ server[0] = "closed" /\ total = 2
    /\ SessionOps(0) = <<<<"connect", 0, "ok">>, <<"starttls", 0, "ok">>,
                         <<"login", 0, "ok">>,
                         <<"send", 1, "SMTPException">>,
                         <<"send", 2, "ok">>>>

\* C29: send_bulk_emails works on one session: connect is asked at most
\* once, everything is asked on that session, no other session is ever
\* opened, whatever send failed.
C29_SingleSession ==
    IsSequential =>
        /\ \A s \in Sessions \ {0} : server[s] = "unopened" /\ log[s] = <<>>
        /\ Cardinality(OpenSessions) <= 1
        /\ Cardinality({j \in 1..Len(log[0]) : log[0][j][1] = "connect"})
              <= 1

\* After the send to the first of three recipients failed, the third one
\* is sent to on the session opened at the start, the only one.
C29_Witness ==
    /\ IsSequential /\ total = 3
    /\ <<"send", 1, "SMTPServerDisconnected">> \in Asked(0)
    /\ <<"send", 3, "ok">> \in Asked(0)
    /\ OpenSessions = {0}

\* C30: in send_bulk_emails_concurrent the unit of work of recipient k asks
\* the transport on session k only: no session is asked for two recipients,
\* the session 0 of the sequential strategy is not used, and on each
\* session at most one connection and at most one send are asked.
C30_OwnSession ==
    IsConcurrent =>
        /\ server[0] = "unopened" /\ log[0] = <<>>
        /\ \A s \in Sessions : \A x \in Asked(s) : x[2] = s
        /\ \A s \in Sessions : \A op \in {"connect", "send"} :
              Cardinality({j \in 1..Len(log[s]) : log[s][j][1] = op}) <= 1

\* Two units of work are logged in at the same time, each on its own
\* session.
C30_Witness ==
    /\ IsConcurrent /\ total >= 2
    /\ server[1] = "auth" /\ server[2] = "auth"
    /\ <<"login", 1, "ok">> \in Asked(1)
    /\ <<"login", 2, "ok">> \in Asked(2)

\* The unit of work whose result is at position j of the result list.
UnitAt(j) == CHOOSE k \in 1..total : recipient_emails[k] = results[j].email

\* C26: in send_bulk_emails_concurrent the callback is invoked only while
\* the lock is held, by the one thread that holds it, so never twice at the
\* same time; when it is invoked the counter equals the number of results
\* recorded, and the j-th invocation carries the count j and the j-th
\* result, whatever the workers do in between.
C26_CallbackUnderLock ==
    IsConcurrent =>
        /\ lock \in {None, MainThread}
        /\ lock # None <=> pc = "in_lock"
        /\ pc = "in_lock" =>
              /\ progress_callback
              /\ completed = Len(results)
              /\ Len(progress) = completed - 1
        /\ Len(invoker) = Len(progress)
        /\ \A a, b \in 1..Len(invoker) : invoker[a] = invoker[b]
        /\ \A j \in 1..Len(progress) :
              progress[j] = [completed |-> j, total |-> total,
                             result |-> results[j]]

\* The callback is about to be invoked for the first result while the
\* other recipient's unit of work is sending.
C26_Witness ==
    /\ IsConcurrent /\ pc = "in_lock" /\ lock = MainThread
    /\ total = 2 /\ completed = 1 /\ progress = <<>>
    /\ \E k \in 1..total : fut[k].state = "send"

\* C27 as stated: in send_bulk_emails_concurrent every invocation of the
\* callback is made by the pool thread that ran the unit of work whose
\* result it reports.
C27_CallbackFromWorker ==
    IsConcurrent =>
        \A j \in 1..Len(invoker) : invoker[j] = ThreadOf(UnitAt(j))

\* C27, amended: in send_bulk_emails_concurrent every invocation of the
\* callback is made by the thread that called send_bulk_emails_concurrent,
\* in its as_completed loop, after the unit of work it reports has finished
\* and its future was yielded; no pool thread ever invokes it.
C27_CallbackFromCaller ==
    IsConcurrent =>
        \A j \in 1..Len(invoker) :
            /\ invoker[j] = MainThread
            /\ fut[UnitAt(j)].state = "yielded"

\* The calling thread has reported the first result while the second unit
\* of work is still logging in.
C27_Witness ==
    /\ IsConcurrent /\ total = 2
    /\ invoker = <<MainThread>>
    /\ progress[1].result = results[1]
    /\ \E k \in 1..total : fut[k].state = "login"

\* C28 as stated: in send_bulk_emails_concurrent the result recorded next
\* is always that of the unit which finished first among those not yet
\* recorded.
C28_CompletionOrder ==
    [][(IsConcurrent /\ Len(results') > Len(results)) =>
          LastCollected' = Head(finished_order)]_vars

\* C28, amended: in send_bulk_emails_concurrent the result recorded next is
\* that of the unit which finished first among those not yet recorded,
\* unless the unit had already finished when the as_completed loop began:
\* those units are recorded first, in any order. The callbacks follow the
\* order of the result list.
C28_CompletionOrderOnceIterating ==
    /\ [][(IsConcurrent /\ Len(results') > Len(results)) =>
            \/ LastCollected' = Head(finished_order)
            \/ LastCollected' \in early]_vars
    /\ [](IsConcurrent =>
            /\ \A k \in early : fut[k].state = "finished"
            /\ \A j \in 1..Len(progress) : progress[j].result = results[j])

\* The second recipient's result was recorded, and reported, while the
\* first recipient's unit of work, submitted before it, is still sending.
C28_Witness ==
    /\ IsConcurrent /\ total = 2 /\ early = {}
    /\ fut[2].state = "yielded" /\ fut[1].state = "send"
    /\ results[1].email = recipient_emails[2]
    /\ Len(progress) = 1

\* The positions of list es that hold the first occurrence of a string,
\* compared in lowercase.
FirstPositions(es) == {j \in 1..Len(es) : FirstOccurrence(es, j) = j}

\* The n-th smallest number of the set S.
Nth(S, n) == CHOOSE j \in S : Cardinality({h \in S : h <= j}) = n

\* The first position of list es that holds x, compared in lowercase.
FirstIndex(es, x) ==
    CHOOSE f \in 1..Len(es) :
        /\ lower(es[f]) = lower(x)
        /\ \A g \in 1..(f - 1) : lower(es[g]) # lower(x)

\* C35: the list deduplicate_emails returns is the input with every string
\* removed that is not the first occurrence of itself in lowercase: a
\* subsequence of the input, in which x comes before y exactly when the
\* first occurrence of x comes before the first occurrence of y in the input.
C35_FirstOccurrenceOrder ==
    parse_pc \in {"again", "done"} =>
        /\ Len(returned) = Cardinality(FirstPositions(tokens))
        /\ \A n \in 1..Len(returned) :
              returned[n] = tokens[Nth(FirstPositions(tokens), n)]
        /\ \A a, b \in 1..Len(returned) :
              a < b <=> FirstIndex(tokens, returned[a])
                            < FirstIndex(tokens, returned[b])

\* An address, the same address in another casing, then another address:
\* the first and the third were returned, in that order.
C35_Witness ==
    /\ parse_pc = "done" /\ Len(tokens) = 3
    /\ tokens[1] # tokens[2]
    /\ lower(tokens[1]) = lower(tokens[2])
    /\ lower(tokens[3]) # lower(tokens[1])
    /\ returned = <<tokens[1], tokens[3]>>

\* The position of x in list es.
PositionIn(es, x) == CHOOSE p \in 1..Len(es) : es[p] = x

\* List sub holds entries of list es only, in the order they have in es.
InOrderOf(sub, es) ==
    /\ \A a \in 1..Len(sub) : \E p \in 1..Len(es) : es[p] = sub[a]
    /\ \A a, b \in 1..Len(sub) :
          a < b => PositionIn(es, sub[a]) < PositionIn(es, sub[b])

\* C36: when parse_and_validate has returned, no address is both in the
\* valid and in the invalid list, each of the two lists holds addresses of
\* the deduplicated list in the order they have there, every address of the
\* deduplicated list is in exactly one of them exactly once, and the lengths
\* of the two lists plus the number of duplicates reported is the number of
\* tokens extracted from the text.
C36_NoTokenLost ==
    parse_pc = "done" =>
        LET unique == deduplicate_emails(extract_emails(text)) IN
        /\ \A a \in 1..Len(returned[1]), b \in 1..Len(returned[2]) :
              returned[1][a] # returned[2][b]
        /\ InOrderOf(returned[1], unique)
        /\ InOrderOf(returned[2], unique)
        /\ \A j \in 1..Len(unique) :
              Cardinality({a \in 1..Len(returned[1]) :
                              returned[1][a] = unique[j]})
                + Cardinality({b \in 1..Len(returned[2]) :
                                  returned[2][b] = unique[j]}) = 1
        /\ Len(returned[1]) + Len(returned[2])
              + DuplicatesRemoved(returned[3]) = Len(extract_emails(text))

\* Three tokens were extracted: one was returned as valid, one as invalid,
\* and one was removed as a duplicate.
C36_Witness ==
    /\ ParseReturned /\ Len(potential_emails) = 3
    /\ Len(returned[1]) = 1 /\ Len(returned[2]) = 1
    /\ DuplicatesRemoved(returned[3]) = 1

IsPrefix(a, b) == Len(a) <= Len(b) /\ SubSeq(b, 1, Len(a)) = a

\* C32: in send_bulk_emails a step never changes or removes a result that
\* is in the list, so the list at any moment is the beginning of the list
\* returned; every result the callback was told of is in the list at its
\* position, also when the batch was aborted afterwards.
C32_OutcomesKept ==
    /\ [][IsSequential => IsPrefix(results, results')]_vars
    /\ [](IsSequential =>
            \A j \in 1..Len(progress) :
                j <= Len(results) /\ progress[j].result = results[j])

\* The batch was aborted at the second of three recipients, after a failed
\* and a successful send: both outcomes are in the list returned.
C32_Witness ==
    /\ IsSequential /\ Returned /\ callback_error # "none"
    /\ total = 3 /\ Len(progress) = 2 /\ Len(results) = 3
    /\ ~results[1].success /\ results[2].success
    /\ results[2] = progress[2].result

SendAttempts(k) ==
    UNION {{<<s, j>> : j \in {h \in 1..Len(log[s]) :
                                 log[s][h][1] = "send" /\ log[s][h][2] = k}} :
              s \in Sessions}

\* The connections opened for session s.
Connects(s) == {j \in 1..Len(log[s]) : log[s][j][1] = "connect"}

\* C31: in every entry point at most one send_message is called for each
\* recipient within a call, whether it failed or not, and no second
\* connection is opened for a session; send_bulk_emails opens no session
\* besides the shared one.
C31_SingleAttempt ==
    /\ \A k \in 1..total : Cardinality(SendAttempts(k)) <= 1
    /\ \A s \in Sessions : Cardinality(Connects(s)) <= 1
    /\ IsSequential => \A s \in 1..total : log[s] = <<>>

\* A throttled or fast call on two recipients has returned; the first send
\* failed and was not repeated, the second succeeded.
C31_Witness ==
    /\ IsSequential /\ Returned /\ total = 2
    /\ <<"send", 1, "SMTPException">> \in Asked(0)
    /\ Cardinality(SendAttempts(1)) = 1
    /\ ~results[1].success /\ results[2].success

\* The loop of send_bulk_emails has begun on recipient k.
Begun(k) == \E x \in Asked(0) : x[1] \in {"build", "send"} /\ x[2] = k

\* C37: in send_bulk_emails, when the loop begins on recipient k > 1 the
\* result of recipient k - 1 is in the list and was reported to the
\* callback, and, with max_delay > 0, k - 1 delays were taken, whatever the
\* outcomes; the j-th delay is taken after the j-th result was recorded and
\* reported.
C37_RecordedBeforeNext ==
    IsSequential =>
        /\ \A k \in 2..total :
              Begun(k) =>
                  /\ Len(results) >= k - 1
                  /\ progress_callback =>
                        /\ Len(progress) >= k - 1
                        /\ progress[k - 1].result = results[k - 1]
                  /\ max_delay > 0 => Len(slept) >= k - 1
        /\ Len(slept) <= Len(results)
        /\ progress_callback => Len(slept) <= Len(progress)
        /\ pc = "sleep" =>
              /\ Len(results) = i
              /\ progress_callback => Len(progress) = i
              /\ Len(slept) = i - 1
              /\ ~Begun(i + 1)

\* The first recipient's send failed, the failure was reported, one delay
\* was taken and the second recipient's message is built.
C37_Witness ==
    /\ IsSequential /\ progress_callback /\ max_delay > 0
    /\ Len(results) = 1 /\ ~results[1].success
    /\ Len(progress) = 1 /\ Len(slept) = 1
    /\ <<"build", 2, "ok">> \in Asked(0)
    /\ pc = "send"

\* A success without a reason, or a failure with one.
WellFormed(r) ==
    IF r.success THEN r.error = None ELSE r.error # None /\ Len(r.error) > 0

\* A send_message for recipient k returned on a session, after a login that
\* was accepted on that session.
SentAuthenticated(k) ==
    \E s \in Sessions :
        \E a, b \in 1..Len(log[s]) :
            /\ a < b
            /\ log[s][a][1] = "login" /\ log[s][a][3] = "ok"
            /\ log[s][b] = <<"send", k, "ok">>

\* C40: every result in the list of send_single_email, send_bulk_emails and
\* send_bulk_emails_concurrent, and every result a unit of work returned,
\* is a success without a reason or a failure with a reason, and is a
\* success only when a send for its recipient returned on a session whose
\* login was accepted.
C40_WellFormedResults ==
    /\ \A j \in 1..Len(results) :
          /\ WellFormed(results[j])
          /\ results[j].success => SentAuthenticated(UnitAt(j))
    /\ \A k \in 1..total :
          (fut[k].state \in {"finished", "yielded"}
              /\ fut[k].exception = "none") =>
              /\ WellFormed(fut[k].result)
              /\ fut[k].result.success => SentAuthenticated(k)

\* A concurrent call on two recipients has returned a success and a failure
\* whose login was refused.
C40_Witness ==
    /\ IsConcurrent /\ Returned /\ total = 2
    /\ \E j \in 1..2 : results[j].success /\ results[j].error = None
    /\ \E j \in 1..2 : ~results[j].success /\ results[j].error = AuthFailedReason

\* The results of list a are those of list b, in some order.
SameResults(a, b) ==
    /\ Len(a) = Len(b)
    /\ {a[j] : j \in 1..Len(a)} = {b[j] : j \in 1..Len(b)}

\* C33: a call made on a sender that has made other calls begins with an
\* empty result list and a counter of 0, and over a deterministic transport
\* it returns the results the same job returned on the sender when it was
\* new (for send_bulk_emails in the same order), whatever job was
\* dispatched in between and however it failed.
C33_NothingPersists ==
    /\ [][callNo' # callNo =>
            /\ results' = <<>>
            /\ completed' = 0
            /\ progress' = <<>>]_vars
    /\ []((callNo = 3 /\ Returned) =>
            /\ SameResults(results, prev[1].results)
            /\ IsSequential => results = prev[1].results)

\* A job of one recipient returned a failure on the new sender; then a job
\* given to the other entry point returned a failure; then the first job
\* returned its failure again and nothing else.
C33_Witness ==
    /\ callNo = 3 /\ Returned /\ total = 1
    /\ ~results[1].success
    /\ results = prev[1].results
    /\ prev[2].n = 1
    /\ ~prev[2].results[1].success
    /\ prev[2].call # call

\* C34: when every thread that can take a step eventually takes one, every
\* call returns; in send_bulk_emails_concurrent every queued unit of work
\* is eventually run by a pool thread and finishes with a result; and
\* send_bulk_emails returns either after the turn of the last recipient, or
\* without any turn when its session could not be set up.
C34_Terminates ==
    /\ <>Returned
    /\ \A k \in 1..MaxParallel :
          [](((IsConcurrent /\ k <= total) /\ fut[k].state = "queued")
                => <>(k <= total /\ fut[k].state \in Running))
    /\ \A k \in 1..MaxParallel :
          [](((IsConcurrent /\ k <= total) /\ fut[k].state = "queued")
                => <>(/\ k <= total
                      /\ fut[k].state \in {"finished", "yielded"}
                      /\ fut[k].result.email = recipient_emails[k]))
    /\ []((IsSequential /\ Returned) =>
            IF SessionEstablished
            THEN i = total /\ Len(results) = total
            ELSE i = 0 /\ SendAttempted = {})

\* A concurrent call with a pool of one thread has returned the results of
\* two recipients, the second of which had to wait in the queue.
C34_Witness ==
    /\ IsConcurrent /\ Returned /\ max_workers = 1 /\ total = 2
    /\ Len(results) = 2
    /\ \A k \in 1..2 : fut[k].state = "yielded"

====
